---- MODULE Spec2Model ----
(***************************************************************************)
(* Model of the roxi HTTP multiplexer: the per-method radix tree           *)
(* (src/tree.go) and the Mux that owns one tree per method (src/roxi.go).  *)
(*                                                                         *)
(* A byte string is a sequence of one-character strings.  Indices kept in  *)
(* definitions are the 0-based indices of the Go code; b[i] of the code is *)
(* b[i+1] here and b[lo:hi] is Sub(b, lo, hi).  An index or slice          *)
(* expression that Go would reject at run time makes the operator return   *)
(* a result whose panic field is TRUE.                                     *)
(***************************************************************************)
EXTENDS Integers, Sequences, FiniteSets, TLC

\* ----------------------------------------------------------------------
\* bytes

\* The byte value of each character of the model's alphabet.
Ord(c) ==
  CASE c = "*" -> 42
    [] c = "." -> 46
    [] c = "/" -> 47
    [] c = "1" -> 49
    [] c = ":" -> 58
    [] c = "A" -> 65
    [] c = "B" -> 66
    [] c = "a" -> 97
    [] c = "b" -> 98
    [] c = "c" -> 99
    [] c = "d" -> 100
    [] c = "e" -> 101
    [] c = "f" -> 102
    [] c = "g" -> 103
    [] c = "h" -> 104
    [] c = "i" -> 105
    [] c = "j" -> 106
    [] c = "k" -> 107
    [] c = "l" -> 108
    [] c = "m" -> 109
    [] c = "n" -> 110
    [] c = "o" -> 111
    [] c = "p" -> 112
    [] c = "q" -> 113
    [] c = "r" -> 114
    [] c = "s" -> 115
    [] c = "t" -> 116
    [] c = "u" -> 117
    [] c = "v" -> 118
    [] c = "w" -> 119
    [] c = "x" -> 120
    [] c = "y" -> 121
    [] c = "z" -> 122

\* b[lo:hi] of the code, for 0 <= lo <= hi <= len(b).
Sub(b, lo, hi) == SubSeq(b, lo + 1, hi)

\* b[lo:] of the code.
From(b, lo) == SubSeq(b, lo + 1, Len(b))

SetMin(S) == CHOOSE x \in S : \A y \in S : x <= y

\* ----------------------------------------------------------------------
\* edges

\* edges.binarySearch: the smallest index in 0..n whose label is >= label,
\* found by bisection between i and j.
RECURSIVE bisect(_, _, _, _)
bisect(e, i, j, label) ==
  IF i < j
  THEN LET h == (i + j) \div 2
       IN  IF ~(Ord(e[h + 1].label) >= Ord(label))
           THEN bisect(e, h + 1, j, label)
           ELSE bisect(e, i, h, label)
  ELSE i

binarySearch(e, n, label) == bisect(e, 0, n, label)

\* edges.get: [node, ok]; node is 0 (nil) when no edge carries the label.
get(e, label) ==
  LET l == Len(e)
      idx == binarySearch(e, l, label)
  IN  IF l > 0 /\ idx < l /\ e[idx + 1].label = label
      THEN [node |-> e[idx + 1].node, ok |-> TRUE]
      ELSE [node |-> 0, ok |-> FALSE]

\* An add that appends the edge, whatever its label.
addAppending(e, n) == Append(e, n)

\* edges.add: the edge is placed at the index binarySearch returns.
add(e, n) ==
  LET idx == binarySearch(e, Len(e), n.label)
  IN  Sub(e, 0, idx) \o <<n>> \o From(e, idx)

\* ----------------------------------------------------------------------
\* params

\* prefixLength: length of the common prefix of s1 and s2.
prefixLength(s1, s2) ==
  LET l == IF Len(s1) > Len(s2) THEN Len(s2) ELSE Len(s1)
      diff == {k \in 0..(l - 1) : s1[k + 1] # s2[k + 1]}
  IN  IF diff = {} THEN l ELSE SetMin(diff)

checkWildCard(b, idx, l) ==
  IF idx >= l THEN FALSE
  ELSE IF b[idx + 1] # "*" THEN FALSE
  ELSE TRUE

countParams(b) == Cardinality({i \in 1..Len(b) : b[i] \in {":", "*"}})

\* pathSegment: [seg, end, ok, panic].  The scan stops at the first of
\* '/', '*', ':' at or after start; a nil segment is the empty string.
pathSegment(b, start, length) ==
  IF length = 0 \/ start >= length
  THEN [seg |-> <<>>, end |-> -1, ok |-> FALSE, panic |-> FALSE]
  ELSE IF start < 0
  THEN [seg |-> <<>>, end |-> -1, ok |-> FALSE, panic |-> TRUE]
  ELSE LET stops == {e \in start..(length - 1) : b[e + 1] \in {"/", "*", ":"}}
       IN  IF stops = {}
           THEN [seg |-> Sub(b, start, length), end |-> length,
                 ok |-> TRUE, panic |-> FALSE]
           ELSE LET e == SetMin(stops)
                IN  IF b[e + 1] = "/"
                    THEN [seg |-> Sub(b, start, e), end |-> e,
                          ok |-> TRUE, panic |-> FALSE]
                    ELSE [seg |-> <<>>, end |-> -1,
                          ok |-> FALSE, panic |-> FALSE]

\* A validation that lets a wildcard stand before the end of the path.
validateParamsWildcardAnywhere(b, total) ==
  LET lenB == Len(b)
      errAt(i) ==
        LET ps == pathSegment(b, i + 1, lenB)
        IN  IF b[i + 1] \in {":", "*"}
            THEN IF ~ps.ok THEN "badchars"
                 ELSE IF Len(ps.seg) = 0 THEN "missing"
                 ELSE ""
            ELSE ""
      bad == {i \in 0..(lenB - 1) : errAt(i) # ""}
  IN  IF bad # {} THEN errAt(SetMin(bad))
      ELSE IF countParams(b) # total THEN "countmismatch"
      ELSE ""

\* validateParams: the error of the first offending ':' or '*', "" if none.
validateParams(b, total) ==
  LET lenB == Len(b)
      errAt(i) ==
        LET ps == pathSegment(b, i + 1, lenB)
        IN  IF b[i + 1] = ":"
            THEN IF ~ps.ok THEN "badchars"
                 ELSE IF Len(ps.seg) = 0 THEN "missing"
                 ELSE ""
            ELSE IF b[i + 1] = "*"
            THEN IF ~ps.ok THEN "badchars"
                 ELSE IF Len(ps.seg) = 0 THEN "missing"
                 ELSE IF ps.end # lenB THEN "wildcardnotlast"
                 ELSE ""
            ELSE ""
      bad == {i \in 0..(lenB - 1) : errAt(i) # ""}
  IN  IF bad # {} THEN errAt(SetMin(bad))
      ELSE IF countParams(b) # total THEN "countmismatch"
      ELSE ""

\* ----------------------------------------------------------------------
\* request: the path values and the Pattern that search writes

\* http.Request as search sees it: otherValues (name, value) pairs and Pattern.
NewRequest == [vars |-> {}, pattern |-> <<>>]

\* r.SetPathValue(name, value)
SetPathValue(r, name, value) ==
  [r EXCEPT !.vars = {p \in @ : p[1] # name} \cup {<<name, value>>}]

\* r.PathValue(name): "" when the name was never set.
PathValue(r, name) ==
  IF \E p \in r.vars : p[1] = name
  THEN (CHOOSE p \in r.vars : p[1] = name)[2]
  ELSE <<>>

\* The scanning loop of parseParams: [i, j, r, panic] at loop exit.
RECURSIVE parseLoop(_, _, _, _, _)
parseLoop(b, path, i, j, r) ==
  IF ~(i < Len(b) /\ j < Len(path))
  THEN [i |-> i, j |-> j, r |-> r, panic |-> FALSE]
  ELSE IF i < 0
  THEN [i |-> i, j |-> j, r |-> r, panic |-> TRUE]
  ELSE IF b[i + 1] = ":"
  THEN LET Token(p, v) ==
             IF p.panic \/ v.panic
             THEN [i |-> i, j |-> j, r |-> r, panic |-> TRUE]
             ELSE parseLoop(b, path, p.end, v.end, SetPathValue(r, p.seg, v.seg))
       IN  Token(pathSegment(b, i + 1, Len(b)), pathSegment(path, j, Len(path)))
  ELSE IF j < 0
  THEN [i |-> i, j |-> j, r |-> r, panic |-> TRUE]
  ELSE IF b[i + 1] = path[j + 1]
  THEN parseLoop(b, path, i + 1, j + 1, r)
  ELSE [i |-> i, j |-> j, r |-> r, panic |-> FALSE]

\* parseParams: [idx, ok, r, panic].
parseParams(b, path, r) ==
  LET lenB == Len(b)
      lenPath == Len(path)
      Ret(idx, ok, rr) == [idx |-> idx, ok |-> ok, r |-> rr, panic |-> FALSE]
      Panic(rr) == [idx |-> 0, ok |-> FALSE, r |-> rr, panic |-> TRUE]
      Wildcard(j, rr, p) ==
        IF lenPath > 0
        THEN IF j < 0 \/ j > lenPath THEN Panic(rr)
             ELSE Ret(lenPath - 1, TRUE,
                      SetPathValue(rr, p.seg, <<"/">> \o Sub(path, j, lenPath)))
        ELSE Ret(0, TRUE, SetPathValue(rr, p.seg, <<"/">>))
      AfterLoop(i, j, rr, panicked) ==
        IF panicked THEN Panic(rr)
        ELSE IF i = lenB /\ j = lenPath THEN Ret(j, TRUE, rr)
        ELSE IF i < 0 THEN Panic(rr)
        ELSE IF checkWildCard(b, i, lenB)
        THEN Wildcard(j, rr, pathSegment(b, i + 1, lenB))
        ELSE IF i = 0 \/ j = 0
        THEN IF lenPath = 0 \/ lenB = 0 THEN Panic(rr)
             ELSE Ret(0, (path[1] = b[1] /\ lenPath - 1 # 0), rr)
        ELSE IF j - 1 < 0 \/ j - 1 >= lenPath \/ i - 1 >= lenB THEN Panic(rr)
        ELSE Ret(j, (path[j] = b[i] /\ lenPath - 1 # j - 1), rr)
      Scan(s) == AfterLoop(s.i, s.j, s.r, s.panic)
  IN  IF lenPath = 0 /\ ~(checkWildCard(b, 0, lenB) \/ checkWildCard(b, 1, lenB))
      THEN Ret(0, FALSE, r)
      ELSE Scan(parseLoop(b, path, 0, 0, r))

\* ----------------------------------------------------------------------
\* handlers

\* A HandlerFunc value: the registered function h (0 is nil) and the
\* middleware that wraps it, outermost first.
NilHandler == [chain |-> <<>>, h |-> 0]

\* MiddlewareStack: wraps handler in mw[len-1], ..., mw[0], skipping nil (0)
\* entries, so that mw[0] ends up outermost.
RECURSIVE MiddlewareStack(_, _)
MiddlewareStack(handler, mw) ==
  IF mw = <<>> THEN handler
  ELSE LET i == Len(mw)
           wrapped == IF mw[i] # 0
                      THEN [handler EXCEPT !.chain = <<mw[i]>> \o @]
                      ELSE handler
       IN  MiddlewareStack(wrapped, Sub(mw, 0, i - 1))

\* ----------------------------------------------------------------------
\* node
\*
\* A tree is the sequence of its nodes in allocation order; a *node is an
\* index into it, the root is node 1 and the nil tree is <<>>.

NilTree == <<>>

\* &node{}
EmptyNode ==
  [key |-> <<>>, route |-> <<>>, param |-> FALSE, leaf |-> FALSE,
   value |-> NilHandler, edges |-> <<>>]

\* The leaf node that insert creates for the remainder of a key.
NewLeaf(key, insKeyFull, value) ==
  [key |-> key, route |-> insKeyFull, param |-> countParams(key) # 0,
   leaf |-> TRUE, value |-> value, edges |-> <<>>]

\* A split that leaves the children of the truncated node behind.
SplitNodeWithoutEdges(child, prefixLen) ==
  [key |-> From(child.key, prefixLen),
   value |-> child.value,
   route |-> child.route,
   param |-> child.param,
   leaf |-> child.leaf,
   edges |-> <<>>]

\* The node a split creates for the suffix of the child's key: it takes the
\* child's handler, route, flags and edges.
SplitNode(child, prefixLen) ==
  [key |-> From(child.key, prefixLen),
   value |-> child.value,
   route |-> child.route,
   param |-> child.param,
   leaf |-> child.leaf,
   edges |-> child.edges]

\* An end of insert that takes a node for registered only when it has a
\* handler and is a leaf with no edges below it.
insertEndLeafOnly(t, current, value) ==
  IF t[current].leaf /\ t[current].value # NilHandler /\ t[current].edges = <<>>
  THEN [t |-> t, panic |-> "duplicate"]
  ELSE [t |-> [t EXCEPT ![current].value = value, ![current].leaf = TRUE],
        panic |-> ""]

\* The end of insert, once the key is used up on node current: a node that
\* is a leaf or has a handler is a duplicate registration.
insertEnd(t, current, value) ==
  IF t[current].leaf \/ t[current].value # NilHandler
  THEN [t |-> t, panic |-> "duplicate"]
  ELSE [t |-> [t EXCEPT ![current].value = value, ![current].leaf = TRUE],
        panic |-> ""]

\* The descent loop of insert: [t, panic, iterations], panic being "" on
\* success and iterations the number of times the loop body ran.
RECURSIVE insertLoop(_, _, _, _, _, _)
insertLoop(t, current, key, insKeyFull, value, params) ==
  IF Len(key) = 0
  THEN LET Ended(e) == [t |-> e.t, panic |-> e.panic, iterations |-> 0]
       IN  Ended(insertEnd(t, current, value))
  ELSE
  LET firstChar == key[1]
      g == get(t[current].edges, firstChar)
      Continue(w) == [w EXCEPT !.iterations = @ + 1]
  IN  IF ~g.ok
      THEN LET new == Len(t) + 1
           IN  [t |-> Append([t EXCEPT ![current].edges =
                                 add(@, [label |-> firstChar, node |-> new])],
                             NewLeaf(key, insKeyFull, value)),
                panic |-> "", iterations |-> 1]
      ELSE
      LET c == g.node
          child == t[c]
          cKeyLen == Len(child.key)
          prefixLen == prefixLength(key, child.key)
      IN  IF prefixLen = cKeyLen
          THEN Continue(insertLoop(t, c, From(key, prefixLen), insKeyFull, value,
                                   params))
          ELSE IF child.param /\ params # 0
                  /\ ( (key[prefixLen] = ":" /\ child.key[prefixLen] = ":")
                       \/ (key[prefixLen] = "*" /\ child.key[prefixLen] = "*") )
          THEN [t |-> t, panic |-> "conflict", iterations |-> 1]
          ELSE
          LET s == Len(t) + 1
              splitNode == SplitNode(child, prefixLen)
              truncated == [child EXCEPT
                              !.key = Sub(child.key, 0, prefixLen),
                              !.value = NilHandler,
                              !.leaf = FALSE,
                              !.edges = <<[label |-> splitNode.key[1], node |-> s]>>]
              t1 == Append([t EXCEPT ![c] = truncated], splitNode)
          IN  IF Len(key) > prefixLen
              THEN [t |-> Append([t1 EXCEPT ![c].edges =
                                    add(@, [label |-> key[prefixLen + 1],
                                            node |-> s + 1])],
                                 NewLeaf(From(key, prefixLen), insKeyFull, value)),
                    panic |-> "", iterations |-> 1]
              ELSE [t |-> [t1 EXCEPT ![c].route = insKeyFull,
                                     ![c].value = value,
                                     ![c].leaf = TRUE],
                    panic |-> "", iterations |-> 1]

\* An insert that writes the rejected pattern on the root before it panics.
insertMarkingRoot(t, key, value) ==
  LET params == countParams(key)
  IN  IF params # 0 /\ validateParams(key, params) # ""
      THEN [t |-> [t EXCEPT ![1].route = key], panic |-> "invalid", iterations |-> 0]
      ELSE insertLoop(t, 1, key, key, value, params)

\* node.insert on a non-nil tree: [t, panic, iterations].
insert(t, key, value) ==
  LET params == countParams(key)
  IN  IF params # 0 /\ validateParams(key, params) # ""
      THEN [t |-> t, panic |-> "invalid", iterations |-> 0]
      ELSE insertLoop(t, 1, key, key, value, params)

\* An edge choice that tries the ':' edge before the edge of the next byte.
edgeForVariableFirst(e, firstChar) ==
  LET byChar == get(e, firstChar)
      byVar == get(e, ":")
      byWild == get(e, "*")
  IN  IF byVar.ok THEN byVar ELSE IF byChar.ok THEN byChar ELSE byWild

\* The edge search follows from a node: the edge labelled with the next
\* byte of the key, else the ':' edge, else the '*' edge.
edgeFor(e, firstChar) ==
  LET byChar == get(e, firstChar)
      byVar == get(e, ":")
      byWild == get(e, "*")
  IN  IF byChar.ok THEN byChar ELSE IF byVar.ok THEN byVar ELSE byWild

\* A walk that goes back to the variable edge of a node when the child
\* under its static edge does not match: one more turn of the loop on the
\* same node with the same key.
RECURSIVE searchLoopBacktracking(_, _, _, _)
searchLoopBacktracking(t, current, key, r) ==
  LET keyLen == Len(key)
      Exit(how, cur, rr) ==
        [how |-> how, current |-> cur, keyLen |-> keyLen, r |-> rr,
         walk |-> IF cur = current THEN <<[node |-> current, key |-> key]>>
                  ELSE <<[node |-> current, key |-> key], [node |-> cur, key |-> key]>>]
      Down(w) == [w EXCEPT !.walk = <<[node |-> current, key |-> key]>> \o @]
      Param(c, child, pp) ==
        IF pp.panic THEN Exit("panic", current, pp.r)
        ELSE IF ~pp.ok THEN Exit("return", current, pp.r)
        ELSE IF Len(child.edges) # 0 /\ pp.idx < keyLen
        THEN Down(searchLoopBacktracking(t, c, From(key, pp.idx), pp.r))
        ELSE Exit("break", c, pp.r)
      Retry(v) ==
        IF ~v.ok THEN Exit("break", current, r)
        ELSE Param(v.node, t[v.node],
                   parseParams(From(t[v.node].key, prefixLength(key, t[v.node].key)),
                               From(key, prefixLength(key, t[v.node].key)), r))
      Child(c, child, cKeyLen, prefixLen) ==
        IF keyLen >= cKeyLen
           /\ prefixLength(Sub(key, 0, cKeyLen), child.key) = cKeyLen
        THEN Down(searchLoopBacktracking(t, c, From(key, cKeyLen), r))
        ELSE IF child.param
        THEN Param(c, child, parseParams(From(child.key, prefixLen),
                                         From(key, prefixLen), r))
        ELSE Down(Retry(get(t[current].edges, ":")))
      Edge(g) ==
        IF ~g.ok THEN Exit("break", current, r)
        ELSE Child(g.node, t[g.node], Len(t[g.node].key),
                   prefixLength(key, t[g.node].key))
  IN  IF ~(keyLen > 0) THEN Exit("break", current, r)
      ELSE Edge(edgeFor(t[current].edges, key[1]))

\* The walk of search: how the loop was left (by "break", by the early
\* "return" or by a run-time "panic"), where, and with which request; walk
\* is the nodes current took, each with the key that was left there.
RECURSIVE searchLoop(_, _, _, _)
searchLoop(t, current, key, r) ==
  LET keyLen == Len(key)
      Exit(how, cur, rr) ==
        [how |-> how, current |-> cur, keyLen |-> keyLen, r |-> rr,
         walk |-> IF cur = current THEN <<[node |-> current, key |-> key]>>
                  ELSE <<[node |-> current, key |-> key], [node |-> cur, key |-> key]>>]
      Down(w) == [w EXCEPT !.walk = <<[node |-> current, key |-> key]>> \o @]
      Param(c, child, pp) ==
        IF pp.panic THEN Exit("panic", current, pp.r)
        ELSE IF ~pp.ok THEN Exit("return", current, pp.r)
        ELSE IF Len(child.edges) # 0 /\ pp.idx < keyLen
        THEN Down(searchLoop(t, c, From(key, pp.idx), pp.r))
        ELSE Exit("break", c, pp.r)
      Child(c, child, cKeyLen, prefixLen) ==
        IF keyLen >= cKeyLen
           /\ prefixLength(Sub(key, 0, cKeyLen), child.key) = cKeyLen
        THEN Down(searchLoop(t, c, From(key, cKeyLen), r))
        ELSE IF child.param
        THEN Param(c, child, parseParams(From(child.key, prefixLen),
                                         From(key, prefixLen), r))
        ELSE Exit("break", current, r)
      Edge(g) ==
        IF ~g.ok THEN Exit("break", current, r)
        ELSE Child(g.node, t[g.node], Len(t[g.node].key),
                   prefixLength(key, t[g.node].key))
  IN  IF ~(keyLen > 0) THEN Exit("break", current, r)
      ELSE Edge(edgeFor(t[current].edges, key[1]))

\* A search that gives up on a request that already carries a Pattern.
searchOncePerRequest(t, key, r) ==
  LET End(w, current) ==
        IF w.how = "panic"
        THEN [panic |-> TRUE, value |-> NilHandler, found |-> FALSE, r |-> w.r]
        ELSE IF w.how = "return"
        THEN [panic |-> FALSE, value |-> current.value, found |-> FALSE, r |-> w.r]
        ELSE IF ~current.param /\ w.keyLen # 0
        THEN [panic |-> FALSE, value |-> current.value, found |-> FALSE, r |-> w.r]
        ELSE [panic |-> FALSE, value |-> current.value, found |-> current.leaf,
              r |-> [w.r EXCEPT !.pattern = current.route]]
      Walk(w) == End(w, t[w.current])
  IN  IF t = NilTree
      THEN [panic |-> TRUE, value |-> NilHandler, found |-> FALSE, r |-> r]
      ELSE IF r.pattern # <<>>
      THEN [panic |-> FALSE, value |-> NilHandler, found |-> FALSE, r |-> r]
      ELSE Walk(searchLoop(t, 1, key, r))

\* node.search: [panic, value, found, r].  A nil receiver faults on its
\* first field access.
search(t, key, r) ==
  LET End(w, current) ==
        IF w.how = "panic"
        THEN [panic |-> TRUE, value |-> NilHandler, found |-> FALSE, r |-> w.r]
        ELSE IF w.how = "return"
        THEN [panic |-> FALSE, value |-> current.value, found |-> FALSE, r |-> w.r]
        ELSE IF ~current.param /\ w.keyLen # 0
        THEN [panic |-> FALSE, value |-> current.value, found |-> FALSE, r |-> w.r]
        ELSE [panic |-> FALSE, value |-> current.value, found |-> current.leaf,
              r |-> [w.r EXCEPT !.pattern = current.route]]
      Walk(w) == End(w, t[w.current])
  IN  IF t = NilTree
      THEN [panic |-> TRUE, value |-> NilHandler, found |-> FALSE, r |-> r]
      ELSE Walk(searchLoop(t, 1, key, r))

\* A search that consumes what it finds: the nodes are leaves no more.
afterSearchClearing(t, key) ==
  [n \in DOMAIN t |-> [t[n] EXCEPT !.leaf = FALSE]]

\* A search that marks the node it starts from.
afterSearchMarking(t, key) ==
  IF t = NilTree THEN t ELSE [t EXCEPT ![1].leaf = TRUE]

\* The tree after node.search(key, r): search and parseParams assign to no
\* field of a node and to no byte of a key, so the tree is as it was.
afterSearch(t, key) == t

\* node.collectRoutes: the routes of the leaves, in depth-first edge order.
RECURSIVE collectRoutes(_, _)
collectRoutes(t, n) ==
  LET RECURSIVE children(_)
      children(es) == IF es = <<>> THEN <<>>
                      ELSE collectRoutes(t, es[1].node) \o children(Tail(es))
  IN  (IF t[n].leaf THEN <<t[n].route>> ELSE <<>>) \o children(t[n].edges)

\* ----------------------------------------------------------------------
\* Mux

\* httpMethods: the methods Handle accepts.
httpMethods ==
  {"GET", "HEAD", "POST", "PUT", "PATCH", "DELETE", "CONNECT", "OPTIONS", "TRACE"}

\* bytes.ToLower / strings.ToLower on the model's alphabet.
ToLowerByte(c) ==
  CASE c = "A" -> "a"
    [] c = "B" -> "b"
    [] OTHER -> c

ToLower(b) == [i \in 1..Len(b) |-> ToLowerByte(b[i])]

\* The elements of a path between its '/' bytes, in order.
RECURSIVE Elements(_, _, _)
Elements(p, i, cur) ==
  IF i > Len(p) THEN <<cur>>
  ELSE IF p[i] = "/" THEN <<cur>> \o Elements(p, i + 1, <<>>)
  ELSE Elements(p, i + 1, Append(cur, p[i]))

\* Drops empty and "." elements and lets ".." remove the element before it.
RECURSIVE Resolve(_, _)
Resolve(els, stack) ==
  IF els = <<>> THEN stack
  ELSE LET e == Head(els)
       IN  IF e = <<>> \/ e = <<".">> THEN Resolve(Tail(els), stack)
           ELSE IF e = <<".", ".">>
           THEN Resolve(Tail(els),
                        IF stack = <<>> THEN stack ELSE Sub(stack, 0, Len(stack) - 1))
           ELSE Resolve(Tail(els), Append(stack, e))

RECURSIVE JoinElements(_)
JoinElements(stack) ==
  IF stack = <<>> THEN <<>>
  ELSE <<"/">> \o Head(stack) \o JoinElements(Tail(stack))

\* CleanPath: the rooted path without ".", ".." and repeated slashes; a
\* trailing slash (or a final ".") is kept as one trailing slash.
CleanPath(p) ==
  LET els == Elements(p, 1, <<>>)
      stack == Resolve(els, <<>>)
      trailing == (Len(p) > 1 /\ p[Len(p)] = "/") \/ els[Len(els)] = <<".">>
  IN  IF stack = <<>> THEN <<"/">>
      ELSE JoinElements(stack) \o (IF trailing THEN <<"/">> ELSE <<>>)

\* The options New builds a Mux from.
DefaultOpts ==
  [setAllowHeader |-> FALSE, routeCaseInsensitive |-> FALSE,
   redirectTrailingSlash |-> FALSE, redirectCleanPath |-> FALSE,
   panicHandler |-> TRUE, mw |-> <<>>]

\* The loop of ServeHTTP over the trees of the other methods, visited in
\* the given order: [panic, found, allowed, r].  With all = FALSE the loop
\* stops at the first tree that matches.
RECURSIVE otherTrees(_, _, _, _, _, _)
otherTrees(trs, order, path, r, all, allowed) ==
  LET Tree(s) ==
        IF s.panic
        THEN [panic |-> TRUE, found |-> FALSE, allowed |-> allowed, r |-> s.r]
        ELSE IF ~s.found
        THEN otherTrees(trs, Tail(order), path, s.r, all, allowed)
        ELSE IF all
        THEN otherTrees(trs, Tail(order), path, s.r, all,
                        Append(allowed, Head(order)))
        ELSE [panic |-> FALSE, found |-> TRUE,
              allowed |-> Append(allowed, Head(order)), r |-> s.r]
  IN  IF order = <<>>
      THEN [panic |-> FALSE, found |-> allowed # <<>>, allowed |-> allowed, r |-> r]
      ELSE Tree(search(trs[Head(order)], path, r))

\* A redirect path that is cleaned and trimmed but never lower-cased.
RedirectPathNoLower(o, path) ==
  LET Trim(p) == IF o.redirectTrailingSlash /\ Len(p) > 1 /\ p[Len(p)] = "/"
                 THEN Sub(p, 0, Len(p) - 1) ELSE p
  IN  IF o.redirectCleanPath THEN Trim(CleanPath(path)) ELSE Trim(path)

\* The path ServeHTTP searches for a redirect.
RedirectPath(o, path) ==
  LET Lower(p) == IF o.routeCaseInsensitive THEN ToLower(p) ELSE p
      Trim(p) == IF o.redirectTrailingSlash /\ Len(p) > 1 /\ p[Len(p)] = "/"
                 THEN Lower(Sub(p, 0, Len(p) - 1)) ELSE Lower(p)
  IN  IF o.redirectCleanPath THEN Trim(CleanPath(path)) ELSE Trim(path)

\* A redirect code that also answers HEAD with 301.
RedirectCodeGetOrHead(method) ==
  IF method \notin {"GET", "HEAD"} THEN 308 ELSE 301

\* The status of a redirect: http.StatusMovedPermanently for GET,
\* http.StatusPermanentRedirect for every other method.
RedirectCode(method) ==
  IF method # "GET" THEN 308 ELSE 301

\* The response of one ServeHTTP call, before its deferred functions run.
\*   kind      the branch that answered: "handler", "redirect",
\*             "notallowed", "notfound", or "none" when a panic came first
\*   panicked  a panic was raised (by search or by the handler)
\*   handler   the HandlerFunc that was invoked, errHandler whether the
\*             error handler ran, allow the Allow header, code and
\*             location the redirect
\*   searched  whether root.search(path, r) ran, direct its result
\*   ran       the middleware and handler functions that ran, in order,
\*             returned what the handler call came to: "nil", "error",
\*             "panic", or "" when no handler was called
\*   r         the request as the call leaves it
Response(kind, panicked, r) ==
  [kind |-> kind, panicked |-> panicked, recovered |-> FALSE,
   handler |-> NilHandler, errHandler |-> FALSE,
   ran |-> <<>>, returned |-> "",
   allow |-> <<>>, code |-> 0, location |-> <<>>,
   searched |-> FALSE,
   direct |-> [panic |-> FALSE, found |-> FALSE, value |-> NilHandler,
               r |-> NewRequest],
   r |-> r]

\* A dispatch that drops the error a handler returns.
DispatchedDroppingError(d, behaviour) ==
  [Response("handler", d.value.h = 0 \/ behaviour = "panic", d.r) EXCEPT
     !.handler = d.value,
     !.ran = IF d.value.h = 0 THEN <<>> ELSE d.value.chain \o <<d.value.h>>,
     !.returned = IF d.value.h = 0 \/ behaviour = "panic" THEN "panic"
                  ELSE IF behaviour = "error" THEN "error" ELSE "nil"]

\* A dispatch without its return: after a handler that failed, and the
\* error handler, the call goes on to the not-found handler.
DispatchedFallingThrough(d, behaviour) ==
  [Response(IF d.value.h # 0 /\ behaviour = "error" THEN "notfound" ELSE "handler",
            d.value.h = 0 \/ behaviour = "panic", d.r) EXCEPT
     !.handler = d.value,
     !.ran = IF d.value.h = 0 THEN <<>> ELSE d.value.chain \o <<d.value.h>>,
     !.returned = IF d.value.h = 0 \/ behaviour = "panic" THEN "panic"
                  ELSE IF behaviour = "error" THEN "error" ELSE "nil",
     !.errHandler = (d.value.h # 0 /\ behaviour = "error")]

\* The dispatch of ServeHTTP: the found handler, with its middleware around
\* it, is called; a returned error goes to the error handler.  Calling a
\* nil handler panics.
Dispatched(d, behaviour) ==
  [Response("handler", d.value.h = 0 \/ behaviour = "panic", d.r) EXCEPT
     !.handler = d.value,
     !.ran = IF d.value.h = 0 THEN <<>> ELSE d.value.chain \o <<d.value.h>>,
     !.returned = IF d.value.h = 0 \/ behaviour = "panic" THEN "panic"
                  ELSE IF behaviour = "error" THEN "error" ELSE "nil",
     !.errHandler = (d.value.h # 0 /\ behaviour = "error")]

\* A ServeHTTP that redirects to the scrubbed path whenever it differs from
\* the request path, without looking it up.
ServeBodyRedirectUnchecked(trs, o, method, path, order, behaviour) ==
  LET code == RedirectCode(method)
      redirect == o.redirectCleanPath \/ o.redirectTrailingSlash
                  \/ o.routeCaseInsensitive
      attempt == method # "CONNECT" /\ path # <<"/">> /\ redirect
      Seen(d) == [panic |-> d.panic, found |-> d.found, value |-> d.value, r |-> d.r]
      Redirected(d, target, s) ==
        IF s.panic
        THEN [Response("none", TRUE, s.r) EXCEPT
                !.searched = TRUE, !.direct = Seen(d)]
        ELSE IF s.found \/ (attempt /\ target # path)
        THEN [Response("redirect", FALSE, s.r) EXCEPT
                !.searched = TRUE, !.direct = Seen(d),
                !.code = code, !.location = target]
        ELSE [Response("notfound", FALSE, s.r) EXCEPT
                !.searched = TRUE, !.direct = Seen(d)]
      Missed(root, d, target) ==
        IF attempt THEN Redirected(d, target, search(root, target, d.r))
        ELSE Redirected(d, target,
                        [panic |-> FALSE, found |-> FALSE, value |-> NilHandler,
                         r |-> d.r])
      Dispatch(root, d) ==
        IF d.panic
        THEN [Response("none", TRUE, d.r) EXCEPT !.searched = TRUE, !.direct = Seen(d)]
        ELSE IF d.found
        THEN [Dispatched(d, behaviour) EXCEPT !.searched = TRUE, !.direct = Seen(d)]
        ELSE Missed(root, d, RedirectPath(o, path))
      Routed(root, others) ==
        IF others.panic THEN Response("none", TRUE, others.r)
        ELSE IF root = NilTree /\ others.found
        THEN [Response("notallowed", FALSE, others.r) EXCEPT
                !.allow = IF o.setAllowHeader THEN others.allowed ELSE <<>>]
        ELSE Dispatch(root, search(root, path, others.r))
      Root(root) ==
        IF root = NilTree
        THEN Routed(root, otherTrees(trs, order, path, NewRequest,
                                     o.setAllowHeader, <<>>))
        ELSE Routed(root, [panic |-> FALSE, found |-> FALSE, allowed |-> <<>>,
                           r |-> NewRequest])
  IN  Root(IF method \in DOMAIN trs THEN trs[method] ELSE NilTree)

\* The body of Mux.ServeHTTP.  order is the iteration order of m.trees and
\* behaviour what the dispatched handler does: "ok", "error" or "panic".
ServeBody(trs, o, method, path, order, behaviour) ==
  LET code == RedirectCode(method)
      redirect == o.redirectCleanPath \/ o.redirectTrailingSlash
                  \/ o.routeCaseInsensitive
      attempt == method # "CONNECT" /\ path # <<"/">> /\ redirect
      Seen(d) == [panic |-> d.panic, found |-> d.found, value |-> d.value, r |-> d.r]
      Redirected(d, target, s) ==
        IF s.panic
        THEN [Response("none", TRUE, s.r) EXCEPT
                !.searched = TRUE, !.direct = Seen(d)]
        ELSE IF s.found
        THEN [Response("redirect", FALSE, s.r) EXCEPT
                !.searched = TRUE, !.direct = Seen(d),
                !.code = code, !.location = target]
        ELSE [Response("notfound", FALSE, s.r) EXCEPT
                !.searched = TRUE, !.direct = Seen(d)]
      Missed(root, d, target) ==
        IF attempt THEN Redirected(d, target, search(root, target, d.r))
        ELSE Redirected(d, target,
                        [panic |-> FALSE, found |-> FALSE, value |-> NilHandler,
                         r |-> d.r])
      Dispatch(root, d) ==
        IF d.panic
        THEN [Response("none", TRUE, d.r) EXCEPT !.searched = TRUE, !.direct = Seen(d)]
        ELSE IF d.found
        THEN [Dispatched(d, behaviour) EXCEPT !.searched = TRUE, !.direct = Seen(d)]
        ELSE Missed(root, d, RedirectPath(o, path))
      Routed(root, others) ==
        IF others.panic THEN Response("none", TRUE, others.r)
        ELSE IF root = NilTree /\ others.found
        THEN [Response("notallowed", FALSE, others.r) EXCEPT
                !.allow = IF o.setAllowHeader THEN others.allowed ELSE <<>>]
        ELSE Dispatch(root, search(root, path, others.r))
      Root(root) ==
        IF root = NilTree
        THEN Routed(root, otherTrees(trs, order, path, NewRequest,
                                     o.setAllowHeader, <<>>))
        ELSE Routed(root, [panic |-> FALSE, found |-> FALSE, allowed |-> <<>>,
                           r |-> NewRequest])
  IN  Root(IF method \in DOMAIN trs THEN trs[method] ELSE NilTree)

\* A ServeHTTP whose deferred function never recovers.
ServeHTTPResultNoRecover(trs, o, method, path, order, behaviour) ==
  ServeBody(trs, o, method, path, order, behaviour)

\* Mux.ServeHTTP with its deferred recover: a panic is recovered and handed
\* to the panic handler when one is configured, and propagates otherwise.
ServeHTTPResult(trs, o, method, path, order, behaviour) ==
  LET b == ServeBody(trs, o, method, path, order, behaviour)
  IN  [b EXCEPT !.recovered = b.panicked /\ o.panicHandler]

\* The wrapping with the global middleware inside the route's.
WrappedRouteOutermost(handlerFunc, mw, global) ==
  MiddlewareStack(MiddlewareStack(handlerFunc, global), mw)

\* The handler Handle stores: the function in the route's middleware, and
\* that in the middleware of the Mux.
Wrapped(handlerFunc, mw, global) ==
  MiddlewareStack(MiddlewareStack(handlerFunc, mw), global)

\* One tree for all the methods: the root of a method that has one.
methodRootShared(trs, method) ==
  IF \A m \in httpMethods : trs[m] = NilTree THEN <<EmptyNode>>
  ELSE trs[CHOOSE m \in httpMethods : trs[m] # NilTree]

\* The root Handle inserts into: m.trees[method], a new node when the
\* method has none.
methodRoot(trs, method) ==
  IF trs[method] = NilTree THEN <<EmptyNode>> ELSE trs[method]

\* A Handle that creates the method's root before it looks at the handler.
HandleResultRootFirst(trs, o, method, path, handlerFunc, mw) ==
  IF method = "" THEN [trees |-> trs, panic |-> "emptymethod"]
  ELSE IF method \notin httpMethods THEN [trees |-> trs, panic |-> "badmethod"]
  ELSE IF Len(path) = 0 THEN [trees |-> trs, panic |-> "emptypath"]
  ELSE IF path[1] # "/" THEN [trees |-> trs, panic |-> "noslash"]
  ELSE
  LET root == IF trs[method] = NilTree THEN <<EmptyNode>> ELSE trs[method]
      key == IF o.routeCaseInsensitive THEN ToLower(path) ELSE path
      Stored(ins) == [trees |-> [trs EXCEPT ![method] = ins.t], panic |-> ins.panic]
  IN  IF handlerFunc = NilHandler
      THEN [trees |-> [trs EXCEPT ![method] = root], panic |-> "nilhandler"]
      ELSE Stored(insert(root, key, Wrapped(handlerFunc, mw, o.mw)))

\* Mux.Handle: [trees, panic], panic being "" when the route is registered.
\* The method's root is created before insert runs.
HandleResult(trs, o, method, path, handlerFunc, mw) ==
  IF method = "" THEN [trees |-> trs, panic |-> "emptymethod"]
  ELSE IF method \notin httpMethods THEN [trees |-> trs, panic |-> "badmethod"]
  ELSE IF Len(path) = 0 THEN [trees |-> trs, panic |-> "emptypath"]
  ELSE IF path[1] # "/" THEN [trees |-> trs, panic |-> "noslash"]
  ELSE IF handlerFunc = NilHandler THEN [trees |-> trs, panic |-> "nilhandler"]
  ELSE
  LET root == methodRoot(trs, method)
      wrapped == Wrapped(handlerFunc, mw, o.mw)
      key == IF o.routeCaseInsensitive THEN ToLower(path) ELSE path
      ins == insert(root, key, wrapped)
  IN  [trees |-> [trs EXCEPT ![method] = ins.t], panic |-> ins.panic]

\* ----------------------------------------------------------------------
\* inputs

\* Bound on the number of routes registered on one Mux.
MaxRoutes == 3

\* Routes whose tokens are named in upper and in lower case, and request
\* paths for them.
NamePatterns == { <<"/", ":", "B">>, <<"/", "a", "/", ":", "B">>, <<"/", "b", "/", ":", "b">> }

NamePaths == { <<"/", "a">>, <<"/", "b">>, <<"/", "a", "/", "b">>, <<"/", "b", "/", "a">> }

NameOpts == {DefaultOpts, [DefaultOpts EXCEPT !.routeCaseInsensitive = TRUE]}

\* Bound on the length of the patterns given to the validation.
MaxPatternLen == 4

\* Every pattern of at most MaxPatternLen bytes over '/', ':', '*' and a
\* letter that begins with '/'.
ValidatePatterns ==
  { <<"/">> \o s :
      s \in UNION {[1..n -> {"/", ":", "*", "a"}] : n \in 0..(MaxPatternLen - 1)} }

\* Bound on the number of ServeHTTP calls in flight at once, and on the
\* number of writerContext instances alive at once.
MaxInflight == 2

\* Patterns over a small alphabet: static, variable and wildcard tokens that
\* share prefixes, and one malformed pattern.
TreePatterns ==
  { <<"/">>,
    <<"/", "a">>,
    <<"/", "a", "b">>,
    <<"/", "a", "/", "b">>,
    <<"/", ":", "x">>,
    <<"/", ":", "y">>,
    <<"/", ":", "x", "a">>,
    <<"/", "a", "/", ":", "x">>,
    <<"/", "*", "w">>,
    <<"/", "*", "v">>,
    <<"/", ":">> }

\* Request paths over the same alphabet.
TreePaths ==
  { <<"/">>,
    <<"/", "a">>,
    <<"/", "a", "b">>,
    <<"/", "b">>,
    <<"/", "a", "/", "b">>,
    <<"/", "a", "/", "a">>,
    <<"/", "a", "/">>,
    <<"/", "x">>,
    <<"/", "x", "a">>,
    <<"/", "b", "/">>,
    <<"/", "a", "/", "b", "/", "a">>,
    <<"/", ":", "x">>,
    <<"/", "a", ":">>,
    <<"/", "*", "w">> }

\* The routes of the README's routing rules.
ReadmePatterns ==
  { <<"/", "f", "o", "o", "/", "x", "y", "z", "z", "y", "/", "b", "a", "z">>,
    <<"/", "f", "o", "o", "/", ":", "b", "a", "r", "/", "b", "a", "z">>,
    <<"/", "f", "o", "o", "/", ":", "b", "a", "r", "/", "*", "w", "i", "l", "d", "c", "a", "r", "d">>,
    <<"/", "f", "o", "o", "/", ":", "b", "a", "r">>,
    <<"/", "f", "o", "o", "/", "b", "a", "r", "/", "*", "w", "i", "l", "d", "c", "a", "r", "d">>,
    <<"/", "p", "a", "t", "h", "/", "*", "w", "i", "l", "d", "c", "a", "r", "d">>,
    <<"/", "a", "/", ":", "x">>,
    <<"/", "a", "/", "s", "t", "a", "t", "i", "c">> }

\* Request paths the README's routing rules speak of, and some near them.
ReadmePaths ==
  { <<"/", "f", "o", "o", "/", "x", "y", "z", "z", "y", "/", "b", "a", "z">>,
    <<"/", "f", "o", "o", "/", "q", "u", "u", "x", "/", "b", "a", "z">>,
    <<"/", "f", "o", "o", "/", "q", "u", "u", "x", "/", "q", "u", "o">>,
    <<"/", "f", "o", "o", "/", "b", "a", "r">>,
    <<"/", "f", "o", "o", "/", "x", "y", "z", "z", "y", "/", "b", "a">>,
    <<"/", "f", "o", "o", "/", "b", "a", "r", "/", "b", "a">>,
    <<"/", "f", "o", "o", "/", "b", "a", "r", "/">>,
    <<"/", "f", "o", "o", "/", "1">>,
    <<"/", "f", "o", "o", "/", "b", "a", "z">>,
    <<"/", "f", "o", "o", "/", "b", "a", "r", "/", "b", "a", "z">>,
    <<"/", "f", "o", "o", "/", "1", "/", "b", "a", "r">>,
    <<"/", "f", "o", "o", "/">>,
    <<"/", "f", "o", "o", "/", "b", "a", "r", "/", "w", "a", "l", "d", "o", "/", "f", "r", "e", "d">>,
    <<"/", "p", "a", "t", "h">>,
    <<"/", "p", "a", "t", "h", "/">>,
    <<"/", "p", "a", "t", "h", "/", "s", "i", "n", "g", "l", "e">>,
    <<"/", "p", "a", "t", "h", "/", "p", "a", "t", "h", "/", "p", "a", "t", "h">>,
    <<"/", "p", "a", "t", "h", "/", "*">>,
    <<"/", "a", "/", "s", "t", "a", "t", "i", "c">>,
    <<"/", "a", "/", "v">>,
    <<"/", "a", "/", "s", "t", "a", "t">>,
    <<"/", "a", "/", "a", ":", "b">> }

\* Routes of the Mux tests.
MuxPatterns ==
  { <<"/", "u", "n", "u", "s", "e", "d">>,
    <<"/", "a">> }

\* Request paths of the Mux tests.
MuxPaths ==
  { <<"/", "u", "n", "u", "s", "e", "d">>,
    <<"/", "u", "n", "u", "s", "e", "d", "/">>,
    <<"/", "a">>,
    <<"/", "b">>,
    <<"/">>,
    <<"/", "A">>,
    <<"/", "a", "/", ".", ".", "/", "a">> }

\* The Mux values the tests construct: New(), WithSetAllowHeader,
\* WithPanicHandler(nil), WithRedirectTrailingSlash, WithRedirectCleanPath,
\* WithCaseInsensitiveRouting and NewWithDefaults.
MuxOpts ==
  { DefaultOpts,
    [DefaultOpts EXCEPT !.setAllowHeader = TRUE],
    [DefaultOpts EXCEPT !.panicHandler = FALSE],
    [DefaultOpts EXCEPT !.redirectTrailingSlash = TRUE],
    [DefaultOpts EXCEPT !.redirectCleanPath = TRUE],
    [DefaultOpts EXCEPT !.routeCaseInsensitive = TRUE],
    [DefaultOpts EXCEPT !.setAllowHeader = TRUE, !.redirectCleanPath = TRUE,
                        !.redirectTrailingSlash = TRUE] }

\* Routes and request paths of the redirect tests, lower- and upper-case,
\* with a wildcard route beside them.
RedirectPatterns ==
  { <<"/", "a">>,
    <<"/", "A">>,
    <<"/", "a", "/", "*", "w">> }

RedirectPaths ==
  { <<"/", "a">>,
    <<"/", "a", "/">>,
    <<"/", "A">>,
    <<"/", "A", "/">>,
    <<"/", "b">>,
    <<"/">>,
    <<"/", ".", ".", "/", "a">>,
    <<"/", "/", "a">> }

\* The Mux values of the redirect tests: New(), WithRedirectTrailingSlash,
\* WithRedirectCleanPath, WithCaseInsensitiveRouting, and all three.
RedirectOpts ==
  { DefaultOpts,
    [DefaultOpts EXCEPT !.redirectTrailingSlash = TRUE],
    [DefaultOpts EXCEPT !.redirectCleanPath = TRUE],
    [DefaultOpts EXCEPT !.routeCaseInsensitive = TRUE],
    [DefaultOpts EXCEPT !.redirectTrailingSlash = TRUE, !.redirectCleanPath = TRUE,
                        !.routeCaseInsensitive = TRUE] }

\* Routes and request paths of the Allow header tests: the route of
\* Test_SetAllowHeader, a route with a variable, and the route that
\* WithOptionsHandler registers on OPTIONS.
AllowPatterns ==
  { <<"/", "u", "n", "u", "s", "e", "d">>,
    <<"/", ":", "b">>,
    <<"/", "*", "p", "a", "t", "h">> }

AllowPaths ==
  { <<"/", "u", "n", "u", "s", "e", "d">>,
    <<"/", "b">>,
    <<"/", "b", "/", "c">>,
    <<"/">> }

\* New() and New(WithSetAllowHeader()).
AllowOpts ==
  { DefaultOpts, [DefaultOpts EXCEPT !.setAllowHeader = TRUE] }

\* ----------------------------------------------------------------------
\* state

VARIABLES
  trees,   \* Mux.trees: method -> tree, NilTree while the method has no entry
  opts,    \* the options the Mux was built with
  routes,  \* the registrations that succeeded, in order
  call,    \* the call in progress: its arguments and how it ended
  ctxPool, \* Mux.ctxPool: the writerContext instances waiting in the pool
  inflight \* the ServeHTTP calls that run concurrently, one per goroutine

vars == <<trees, opts, routes, call, ctxPool, inflight>>

\* The goroutines that serve requests, and the writerContext instances.
Procs == 1..MaxInflight

Ctxs == 1..MaxInflight

\* A goroutine outside ServeHTTP.  pc is "idle", "body" (between Get and
\* the end of the function body), "defer" (running the deferred calls) or
\* "done"; ctx is the local variable ctx (0 before Get), deferred the stack
\* of deferred calls, panicking whether a panic is unwinding the call, puts
\* the number of times the call has Put ctx; method and path are the
\* request of the call and resp what the call has answered so far.
NoRequest ==
  [pc |-> "idle", ctx |-> 0, deferred |-> <<>>, panicking |-> FALSE, puts |-> 0,
   method |-> "", path |-> <<>>, behaviour |-> "",
   resp |-> Response("none", FALSE, NewRequest)]

\* The instances some call in flight has taken and not Put back.
Taken ==
  { inflight[p].ctx : p \in { q \in Procs : /\ inflight[q].pc \in {"body", "defer"}
                                            /\ inflight[q].puts = 0 } }

\* sync.Pool.Get: an arbitrary item of the pool, or a new instance from
\* Pool.New (Get may treat the pool as empty).
PoolGet ==
  ctxPool \cup (IF Ctxs \ (ctxPool \cup Taken) = {} THEN {}
                ELSE {SetMin(Ctxs \ (ctxPool \cup Taken))})

\* The deferred calls with Put registered after the recover.
DeferredPutLast(o) ==
  IF o.panicHandler THEN <<"recover", "Put">> ELSE <<"Put">>

\* The deferred calls of ServeHTTP in the order they are registered: the
\* Put of ctx, then the recover when a panic handler is configured.  They
\* run last to first.
Deferred(o) ==
  IF o.panicHandler THEN <<"Put", "recover">> ELSE <<"Put">>

Idle ==
  [op |-> "idle", method |-> "", path |-> <<>>, isNil |-> FALSE,
   panic |-> "", dup |-> FALSE,
   resp |-> Response("none", FALSE, NewRequest)]

\* The key the Mux inserts for a path.
RouteKey(path) == IF opts.routeCaseInsensitive THEN ToLower(path) ELSE path

\* Whether (method, path) is a route registered earlier.
Registered(method, path) ==
  \E i \in 1..Len(routes) :
    routes[i].method = method /\ routes[i].key = RouteKey(path)

\* The orders in which a range over m.trees can visit its entries.
RECURSIVE Orders(_)
Orders(S) ==
  IF S = {} THEN {<<>>}
  ELSE UNION {{<<m>> \o rest : rest \in Orders(S \ {m})} : m \in S}

InitWith(optsPool) ==
  /\ trees = [m \in httpMethods |-> NilTree]
  /\ opts \in optsPool
  /\ routes = <<>>
  /\ call = Idle
  /\ ctxPool = {}
  /\ inflight = [p \in Procs |-> NoRequest]

\* A registration that succeeded: its arguments, the key inserted, the
\* function h and the middleware of the Mux at the time.
Route(method, path, key, h, mw, global) ==
  [method |-> method, pattern |-> path, key |-> key, h |-> h, mw |-> mw,
   global |-> global]

\* The options of the middleware tests.  A middleware function is a
\* positive number, 0 is nil.
GlobalMiddleware == <<11, 0, 12>>

RouteMiddleware == {<<>>, <<21, 0, 22>>}

WithMiddleware == [opt |-> "WithMiddleware", mw |-> GlobalMiddleware]

WithOptionsHandler == [opt |-> "WithOptionsHandler", mw |-> <<>>]

OptionLists ==
  { <<>>,
    <<WithMiddleware>>,
    <<WithOptionsHandler>>,
    <<WithMiddleware, WithOptionsHandler>>,
    <<WithOptionsHandler, WithMiddleware>> }

\* One option applied to the Mux m = [trees, opts, routes]: WithMiddleware
\* sets m.mw, WithOptionsHandler registers the handler for OPTIONS /*path.
ApplyOption(m, o) ==
  IF o.opt = "WithMiddleware" THEN [m EXCEPT !.opts.mw = o.mw]
  ELSE LET path == <<"/", "*", "p", "a", "t", "h">>
           Stored(res) ==
             [m EXCEPT !.trees = res.trees,
                       !.routes = IF res.panic = ""
                                  THEN Append(@, Route("OPTIONS", path, path,
                                                       Len(@) + 1, <<>>, m.opts.mw))
                                  ELSE @]
       IN  Stored(HandleResult(m.trees, m.opts, "OPTIONS", path,
                               [chain |-> <<>>, h |-> Len(m.routes) + 1], <<>>))

\* New(options...): the options are applied in order to the default Mux.
RECURSIVE New(_)
New(options) ==
  IF options = <<>>
  THEN [trees |-> [m \in httpMethods |-> NilTree], opts |-> DefaultOpts,
        routes |-> <<>>]
  ELSE ApplyOption(New(Sub(options, 0, Len(options) - 1)), options[Len(options)])

InitNew(optionLists) ==
  /\ \E options \in optionLists :
       LET Built(m) == trees = m.trees /\ opts = m.opts /\ routes = m.routes
       IN  Built(New(options))
  /\ call = Idle
  /\ ctxPool = {}
  /\ inflight = [p \in Procs |-> NoRequest]

\* m.Handle(method, path, handlerFunc, mw...): the handler is the next
\* unused function, or nil.
HandleWith(method, path, isNil, mw) ==
  /\ call.op = "idle"
  /\ Len(routes) < MaxRoutes
  /\ LET h == IF isNil THEN NilHandler
              ELSE [chain |-> <<>>, h |-> Len(routes) + 1]
         res == HandleResult(trees, opts, method, path, h, mw)
     IN  /\ trees' = res.trees
         /\ routes' = IF res.panic = ""
                      THEN Append(routes, Route(method, path, RouteKey(path),
                                                h.h, mw, opts.mw))
                      ELSE routes
         /\ call' = [Idle EXCEPT !.op = "Handle", !.method = method, !.path = path,
                                 !.isNil = isNil,
                                 !.panic = res.panic,
                                 !.dup = Registered(method, path)]
  /\ UNCHANGED <<opts, ctxPool, inflight>>

\* m.Handle(method, path, handlerFunc) without middleware of its own.
Handle(method, path, isNil) == HandleWith(method, path, isNil, <<>>)

\* m.ServeHTTP(w, r) for a request of the given method and path, run from
\* Get to Put with no other call in between.
ServeHTTP(method, path, behaviour) ==
  /\ call.op = "idle"
  /\ \E c \in PoolGet : ctxPool' = ctxPool \cup {c}
  /\ \E order \in Orders({m \in httpMethods : trees[m] # NilTree}) :
       call' = [Idle EXCEPT !.op = "ServeHTTP", !.method = method, !.path = path,
                            !.resp = ServeHTTPResult(trees, opts, method, path,
                                                     order, behaviour)]
  /\ trees' = [m \in httpMethods |-> afterSearch(trees[m], path)]
  /\ UNCHANGED <<opts, routes, inflight>>

\* The caller has the result of the call; the Mux is ready for the next.
Return ==
  /\ call.op # "idle"
  /\ call' = Idle
  /\ UNCHANGED <<trees, opts, routes, ctxPool, inflight>>

\* Goroutine p enters ServeHTTP: ctx := m.ctxPool.Get(), and the deferred
\* calls are registered.
Get(p) ==
  /\ inflight[p].pc \in {"idle", "done"}
  /\ \E c \in PoolGet :
       /\ ctxPool' = ctxPool \ {c}
       /\ inflight' = [inflight EXCEPT ![p] =
                         [NoRequest EXCEPT !.pc = "body", !.ctx = c,
                                           !.deferred = Deferred(opts)]]
  /\ UNCHANGED <<trees, opts, routes, call>>

\* Goroutine p runs the body of ServeHTTP for a request: it ends by a
\* return or by a panic.
Serve(p, method, path, behaviour) ==
  /\ inflight[p].pc = "body"
  /\ \E order \in Orders({m \in httpMethods : trees[m] # NilTree}) :
       LET Answered(b) ==
             [inflight EXCEPT ![p].pc = "defer", ![p].panicking = b.panicked,
                              ![p].method = method, ![p].path = path,
                              ![p].behaviour = behaviour, ![p].resp = b]
       IN  inflight' = Answered(ServeBody(trees, opts, method, path, order, behaviour))
  /\ trees' = [m \in httpMethods |-> afterSearch(trees[m], path)]
  /\ UNCHANGED <<opts, routes, call, ctxPool>>

\* Goroutine p runs its most recently deferred call: the recover, which
\* hands a panic to the panic handler with ctx, or m.ctxPool.Put(ctx).
RunDeferred(p) ==
  /\ inflight[p].pc = "defer"
  /\ inflight[p].deferred # <<>>
  /\ LET n == Len(inflight[p].deferred)
     IN  IF inflight[p].deferred[n] = "Put"
         THEN /\ ctxPool' = ctxPool \cup {inflight[p].ctx}
              /\ inflight' = [inflight EXCEPT
                                ![p].deferred = Sub(@, 0, n - 1),
                                ![p].puts = @ + 1]
         ELSE /\ ctxPool' = ctxPool
              /\ inflight' = [inflight EXCEPT
                                ![p].deferred = Sub(@, 0, n - 1),
                                ![p].panicking = FALSE,
                                ![p].resp.recovered = inflight[p].panicking]
  /\ UNCHANGED <<trees, opts, routes, call>>

\* Goroutine p leaves ServeHTTP, by a return or with its panic.
End(p) ==
  /\ inflight[p].pc = "defer"
  /\ inflight[p].deferred = <<>>
  /\ inflight' = [inflight EXCEPT ![p].pc = "done"]
  /\ UNCHANGED <<trees, opts, routes, call, ctxPool>>

\* The garbage collector removes an item from the pool.
Drop ==
  /\ \E c \in ctxPool : ctxPool' = ctxPool \ {c}
  /\ UNCHANGED <<trees, opts, routes, call, inflight>>

\* --- the tree of one method, over a small alphabet
InitTree == InitWith({DefaultOpts})

HandleTree == \E p \in TreePatterns : Handle("GET", p, FALSE)

ServeTree == \E p \in TreePaths : ServeHTTP("GET", p, "ok")

NextTree == HandleTree \/ ServeTree \/ Return

SpecTree == InitTree /\ [][NextTree]_vars

\* --- the README's routes on one method
HandleReadme == \E p \in ReadmePatterns : Handle("GET", p, FALSE)

ServeReadme == \E p \in ReadmePaths : ServeHTTP("GET", p, "ok")

NextReadme == HandleReadme \/ ServeReadme \/ Return

SpecReadme == InitTree /\ [][NextReadme]_vars

\* --- the Mux: several methods, every option
Init == InitWith(MuxOpts)

HandleMux ==
  \E m \in {"GET", "POST", "BREW", ""}, p \in MuxPatterns \cup {<<>>, <<"a">>},
     isNil \in BOOLEAN :
    Handle(m, p, isNil)

ServeMux ==
  \E m \in {"GET", "POST", "PUT"}, p \in MuxPaths, b \in {"ok", "error", "panic"} :
    ServeHTTP(m, p, b)

Next == HandleMux \/ ServeMux \/ Return

Spec == Init /\ [][Next]_vars

\* --- a Mux with or without the Allow header, routes on three methods
InitAllow == InitWith(AllowOpts)

HandleAllow ==
  \E m \in {"GET", "PUT", "OPTIONS"}, p \in AllowPatterns : Handle(m, p, FALSE)

ServeAllow ==
  \E m \in {"GET", "POST"}, p \in AllowPaths : ServeHTTP(m, p, "ok")

NextAllow == HandleAllow \/ ServeAllow \/ Return

SpecAllow == InitAllow /\ [][NextAllow]_vars

\* --- a Mux with a redirect option, routes on GET and HEAD
InitRedirect == InitWith(RedirectOpts)

HandleRedirect ==
  \E m \in {"GET", "HEAD"}, p \in RedirectPatterns : Handle(m, p, FALSE)

ServeRedirect ==
  \E m \in {"GET", "HEAD", "CONNECT"}, p \in RedirectPaths : ServeHTTP(m, p, "ok")

NextRedirect == HandleRedirect \/ ServeRedirect \/ Return

SpecRedirect == InitRedirect /\ [][NextRedirect]_vars

\* --- concurrent requests on a Mux with or without a panic handler; the
\* routes are registered before the requests are served
InitPool == InitWith({DefaultOpts, [DefaultOpts EXCEPT !.panicHandler = FALSE]})

HandlePool ==
  /\ \A p \in Procs : inflight[p].pc = "idle"
  /\ Handle("GET", <<"/", "a">>, FALSE)

GetPool == \E p \in Procs : Get(p)

ServePool ==
  \E p \in Procs, b \in {"ok", "panic"} : Serve(p, "GET", <<"/", "a">>, b)

RunDeferredPool == \E p \in Procs : RunDeferred(p)

EndPool == \E p \in Procs : End(p)

NextPool ==
  HandlePool \/ Return \/ GetPool \/ ServePool \/ RunDeferredPool \/ EndPool \/ Drop

SpecPool == InitPool /\ [][NextPool]_vars

\* --- concurrent requests for static and variable routes, registered in
\* order before the first request
ConcurrentRoutes ==
  << <<"/", "a">>, <<"/", ":", "x">> >>

ConcurrentRequests ==
  { [method |-> "GET", path |-> <<"/", "a">>],
    [method |-> "GET", path |-> <<"/", "b">>],
    [method |-> "GET", path |-> <<"/", "a", "/">>],
    [method |-> "POST", path |-> <<"/", "a">>] }

InitConcurrent ==
  InitWith({[DefaultOpts EXCEPT !.redirectTrailingSlash = TRUE,
                                !.panicHandler = FALSE]})

HandleConcurrent ==
  /\ \A p \in Procs : inflight[p].pc = "idle"
  /\ Len(routes) < Len(ConcurrentRoutes)
  /\ Handle("GET", ConcurrentRoutes[Len(routes) + 1], FALSE)

ServeConcurrent ==
  \E p \in Procs, q \in ConcurrentRequests : Serve(p, q.method, q.path, "ok")

NextConcurrent ==
  HandleConcurrent \/ Return \/ GetPool \/ ServeConcurrent \/ RunDeferredPool
    \/ EndPool

SpecConcurrent == InitConcurrent /\ [][NextConcurrent]_vars

\* --- token names in both cases, with and without case-insensitive routing
InitName == InitWith(NameOpts)

HandleName == \E p \in NamePatterns : Handle("GET", p, FALSE)

ServeName == \E p \in NamePaths : ServeHTTP("GET", p, "ok")

NextName == HandleName \/ ServeName \/ Return

SpecName == InitName /\ [][NextName]_vars

\* --- one pattern of any shape registered on a Mux that is empty or holds
\* the route /a
HandleValidate ==
  /\ \A i \in 1..Len(routes) : routes[i].pattern = <<"/", "a">>
  /\ \E p \in ValidatePatterns : Handle("GET", p, FALSE)

NextValidate == HandleValidate \/ Return

SpecValidate == InitTree /\ [][NextValidate]_vars

\* --- a Mux built with middleware and an OPTIONS handler, routes with and
\* without middleware of their own
InitMiddleware == InitNew(OptionLists)

HandleMiddleware ==
  \E p \in {<<"/", "a">>, <<"/", "b">>}, mw \in RouteMiddleware :
    HandleWith("GET", p, FALSE, mw)

ServeMiddleware ==
  \E m \in {"GET", "OPTIONS"}, p \in {<<"/", "a">>, <<"/", "b">>, <<"/", "c">>},
     b \in {"ok", "error"} :
    ServeHTTP(m, p, b)

NextMiddleware == HandleMiddleware \/ ServeMiddleware \/ Return

SpecMiddleware == InitMiddleware /\ [][NextMiddleware]_vars

\* ----------------------------------------------------------------------
\* What a pattern matches, by the routing rules
\*
\* A path is an instance of a pattern when it is the pattern with every
\* :name token replaced by a non-empty string without '/' and a trailing
\* *name token replaced by any suffix.  Instance gives the values of the
\* tokens; a wildcard's value is '/' followed by the suffix.

\* The first index at or after i where s has a '/', Len(s) + 1 if none.
SegmentEnd(s, i) ==
  LET stops == {k \in i..Len(s) : s[k] = "/"}
  IN  IF stops = {} THEN Len(s) + 1 ELSE SetMin(stops)

RECURSIVE InstanceFrom(_, _, _, _, _)
InstanceFrom(p, i, path, j, bound) ==
  IF i > Len(p) THEN [ok |-> j > Len(path), vars |-> bound]
  ELSE IF p[i] = ":"
  THEN LET pe == SegmentEnd(p, i + 1)
           ve == SegmentEnd(path, j)
           name == SubSeq(p, i + 1, pe - 1)
           val == SubSeq(path, j, ve - 1)
       IN  IF val = <<>> THEN [ok |-> FALSE, vars |-> bound]
           ELSE InstanceFrom(p, pe, path, ve, bound \cup {<<name, val>>})
  ELSE IF p[i] = "*"
  THEN [ok |-> TRUE,
        vars |-> bound \cup {<<SubSeq(p, i + 1, Len(p)),
                               <<"/">> \o SubSeq(path, j, Len(path))>>}]
  ELSE IF j <= Len(path) /\ path[j] = p[i]
  THEN InstanceFrom(p, i + 1, path, j + 1, bound)
  ELSE [ok |-> FALSE, vars |-> bound]

Instance(p, path) == InstanceFrom(p, 1, path, 1, {})

\* The direct search of the last ServeHTTP call, when it ran.
Searched == call.op = "ServeHTTP" /\ call.resp.searched

Direct == call.resp.direct

\* The direct search found route i and bound its tokens to the values vs.
FoundRoute(i, vs) ==
  /\ ~Direct.panic
  /\ Direct.found
  /\ Direct.value.h = routes[i].h
  /\ \A b \in vs : PathValue(Direct.r, b[1]) = b[2]

\* Route i is on the tree the last call worked on.
OnMethod(i) == routes[i].method = call.method

\* The requested path is an instance of route i and of no other route of
\* the method.
OnlyInstance(i) ==
  /\ OnMethod(i)
  /\ Instance(routes[i].key, call.path).ok
  /\ \A k \in 1..Len(routes) :
       (k # i /\ OnMethod(k)) => ~Instance(routes[k].key, call.path).ok

\* The requested path is an instance of no route of the method.
NoInstance ==
  \A k \in 1..Len(routes) :
    OnMethod(k) => ~Instance(routes[k].key, call.path).ok

\* The index of the registered route with key p.
RouteIndex(p) == CHOOSE i \in 1..Len(routes) : routes[i].key = p

\* The keys of the registered routes.
RouteKeys == {routes[i].key : i \in 1..Len(routes)}

\* The pattern is S/*w with S free of tokens: [ok, S, w].
StaticWildcard(p) ==
  LET stars == {k \in 1..Len(p) : p[k] = "*"}
      k == SetMin(stars)
  IN  IF stars = {} \/ countParams(p) # 1 THEN [ok |-> FALSE, S |-> <<>>, w |-> <<>>]
      ELSE [ok |-> k >= 2 /\ p[k - 1] = "/",
            S |-> SubSeq(p, 1, k - 2), w |-> SubSeq(p, k + 1, Len(p))]

\* ----------------------------------------------------------------------
\* C1  Completeness of matching: whenever the searched path is an instance
\* of a registered pattern (and of no other pattern of the tree), search
\* finds that pattern's handler and binds every token name of the pattern
\* to the value the path has in its place.
C1_Completeness ==
  Searched =>
    \A i \in 1..Len(routes) :
      OnlyInstance(i) => FoundRoute(i, Instance(routes[i].key, call.path).vars)

\* C2  Soundness of matching: search reports found=true only with the
\* handler of a registered pattern that the whole request path is an
\* instance of; a route ending in a variable never matches a path with
\* further segments after the variable's segment.
C2_Soundness ==
  (Searched /\ ~Direct.panic /\ Direct.found) =>
    \E i \in 1..Len(routes) :
      /\ OnMethod(i)
      /\ Direct.value.h = routes[i].h
      /\ Instance(routes[i].key, call.path).ok

\* ----------------------------------------------------------------------
\* The three routes of the README's routing priority example.
LiteralRoute == <<"/", "f", "o", "o", "/", "x", "y", "z", "z", "y", "/", "b", "a", "z">>

VariableRoute == <<"/", "f", "o", "o", "/", ":", "b", "a", "r", "/", "b", "a", "z">>

WildcardRoute == <<"/", "f", "o", "o", "/", ":", "b", "a", "r", "/", "*", "w", "i", "l", "d", "c", "a", "r", "d">>

PriorityRoutes == {LiteralRoute, VariableRoute, WildcardRoute}

\* C3  Routing priority: with exactly the routes /foo/xyzzy/baz,
\* /foo/:bar/baz and /foo/:bar/*wildcard registered, in any order,
\* /foo/xyzzy/baz finds the literal route, /foo/quux/baz the variable route
\* with bar=quux, /foo/quux/quo the wildcard route with bar=quux and
\* wildcard=/quo, and /foo/bar is not found.
C3_RoutingPriority ==
  (Searched /\ RouteKeys = PriorityRoutes) =>
    /\ call.path = <<"/", "f", "o", "o", "/", "x", "y", "z", "z", "y", "/", "b", "a", "z">> => FoundRoute(RouteIndex(LiteralRoute), {})
    /\ call.path = <<"/", "f", "o", "o", "/", "q", "u", "u", "x", "/", "b", "a", "z">> =>
         FoundRoute(RouteIndex(VariableRoute), {<<<<"b", "a", "r">>, <<"q", "u", "u", "x">>>>})
    /\ call.path = <<"/", "f", "o", "o", "/", "q", "u", "u", "x", "/", "q", "u", "o">> =>
         FoundRoute(RouteIndex(WildcardRoute),
                    {<<<<"b", "a", "r">>, <<"q", "u", "u", "x">>>>, <<<<"w", "i", "l", "d", "c", "a", "r", "d">>, <<"/", "q", "u", "o">>>>})
    /\ call.path = <<"/", "f", "o", "o", "/", "b", "a", "r">> => (~Direct.panic /\ ~Direct.found)

\* The wildcard route is found for /foo/quux/quo with all three registered.
C3_Witness ==
  /\ Searched
  /\ RouteKeys = PriorityRoutes
  /\ call.path = <<"/", "f", "o", "o", "/", "q", "u", "u", "x", "/", "q", "u", "o">>
  /\ FoundRoute(RouteIndex(WildcardRoute),
                {<<<<"b", "a", "r">>, <<"q", "u", "u", "x">>>>, <<<<"w", "i", "l", "d", "c", "a", "r", "d">>, <<"/", "q", "u", "o">>>>})

\* ----------------------------------------------------------------------
VariableSegmentRoute == <<"/", "a", "/", ":", "x">>

StaticSegmentRoute == <<"/", "a", "/", "s", "t", "a", "t", "i", "c">>

\* A request path /a/v with v non-empty and free of '/'.
UnderA(path) ==
  /\ Len(path) > 3
  /\ SubSeq(path, 1, 3) = <<"/", "a", "/">>
  /\ \A k \in 4..Len(path) : path[k] # "/"

\* C4  A segment may be a variable in one route and static in another:
\* /a/static registers after /a/:x, and with just these two registered in
\* that order /a/static finds the static route and every other /a/v, v a
\* non-empty segment, finds the variable route with x=v.
C4_StaticBesideVariable ==
  /\ (call.op = "Handle" /\ call.path = StaticSegmentRoute
        /\ Len(routes) >= 1 /\ routes[1].key = VariableSegmentRoute
        /\ ~call.dup)
       => call.panic = ""
  /\ (Searched /\ Len(routes) = 2 /\ routes[1].key = VariableSegmentRoute
        /\ routes[2].key = StaticSegmentRoute /\ UnderA(call.path))
       => IF call.path = StaticSegmentRoute
          THEN FoundRoute(2, {})
          ELSE FoundRoute(1, {<<<<"x">>, SubSeq(call.path, 4, Len(call.path))>>})

\* ----------------------------------------------------------------------
\* The name of the token that starts at index k of pattern p.
TokenName(p, k) == SubSeq(p, k + 1, SegmentEnd(p, k + 1) - 1)

\* Patterns p and q have a variable token each, or a wildcard token each,
\* at the same place after the same prefix, with different names.
NameConflict(p, q) ==
  \E k \in 1..Len(p) :
    /\ k <= Len(q)
    /\ SubSeq(p, 1, k) = SubSeq(q, 1, k)
    /\ p[k] \in {":", "*"}
    /\ TokenName(p, k) # TokenName(q, k)

\* C5  Conflict detection: registering a pattern whose variable (or
\* wildcard) token stands where a registered pattern of the same method has
\* a variable (or wildcard) token of another name panics.
C5_ConflictDetection ==
  (call.op = "Handle"
     /\ \E i \in 1..Len(routes) :
          OnMethod(i) /\ NameConflict(routes[i].key, RouteKey(call.path)))
    => call.panic # ""

\* ----------------------------------------------------------------------
\* C6  Duplicate detection: registering, with a handler, a pattern that is
\* already registered on the method panics as a duplicate, whatever was
\* registered in between and whether or not the first registration's node
\* was split.
C6_DuplicateDetection ==
  (call.op = "Handle" /\ call.dup /\ call.panic # "nilhandler")
    => call.panic = "duplicate"

\* A duplicate is refused after the node of the first registration was
\* split by a later one: the leaf of the pattern holds only a fragment.
C6_Witness ==
  /\ call.op = "Handle"
  /\ call.dup
  /\ call.panic = "duplicate"
  /\ Len(routes) >= 2
  /\ routes[1].key = call.path
  /\ \E n \in 1..Len(trees[call.method]) :
       LET nd == trees[call.method][n]
       IN  nd.leaf /\ nd.route = call.path /\ nd.key # call.path

\* ----------------------------------------------------------------------
\* C7  Wildcard binding: for a registered route S/*w with S static, every
\* path S/s (that is an instance of no other route) is found and binds w to
\* '/' followed by s, which is '/' alone when s is empty.
C7_WildcardBinding ==
  Searched =>
    \A i \in 1..Len(routes) :
      LET sw == StaticWildcard(routes[i].key)
          n == Len(sw.S)
      IN  (sw.ok /\ OnlyInstance(i) /\ Len(call.path) > n
             /\ SubSeq(call.path, 1, n + 1) = sw.S \o <<"/">>)
            => FoundRoute(i, {<<sw.w, <<"/">> \o SubSeq(call.path, n + 2,
                                                        Len(call.path))>>})

\* C8  A wildcard route does not match a path that stops before the
\* wildcard: with S/*w registered, a request for a prefix of S/ that no
\* route matches is not found by search.
C8_WildcardStopsShort ==
  Searched =>
    \A i \in 1..Len(routes) :
      LET sw == StaticWildcard(routes[i].key)
          n == Len(sw.S)
      IN  (sw.ok /\ OnMethod(i) /\ NoInstance /\ Len(call.path) <= n + 1
             /\ call.path = SubSeq(sw.S \o <<"/">>, 1, Len(call.path)))
            => (~Direct.panic /\ ~Direct.found)

\* ----------------------------------------------------------------------
\* The requested path is an instance of a route of another method.
OtherMethodInstance ==
  \E k \in 1..Len(routes) :
    ~OnMethod(k) /\ Instance(routes[k].key, call.path).ok

\* C9  When no route of the request's method matches the path but a route
\* of another method does, ServeHTTP invokes the method-not-allowed
\* handler, whether or not the request's method has routes of its own.
C9_MethodNotAllowed ==
  (call.op = "ServeHTTP" /\ NoInstance /\ OtherMethodInstance)
    => call.resp.kind = "notallowed"

\* C10  A routing miss is not an error: a request whose method has no tree,
\* for a path no route of any method matches, ends in the not-found handler
\* and raises no panic.
C10_MissIsNotFound ==
  (call.op = "ServeHTTP" /\ trees[call.method] = NilTree
     /\ \A k \in 1..Len(routes) : ~Instance(routes[k].key, call.path).ok)
    => (call.resp.kind = "notfound" /\ ~call.resp.panicked)

\* ----------------------------------------------------------------------
\* Some path transform of ServeHTTP is enabled.
RedirectEnabled ==
  opts.redirectCleanPath \/ opts.redirectTrailingSlash \/ opts.routeCaseInsensitive

\* The direct search of the last call ran on the method's tree and missed.
DirectMiss ==
  /\ Searched
  /\ trees[call.method] # NilTree
  /\ ~Direct.panic
  /\ ~Direct.found

\* search on the method's tree succeeds for path p.
SearchSucceeds(p) ==
  LET Ok(s) == ~s.panic /\ s.found
  IN  Ok(search(trees[call.method], p, NewRequest))

\* C11  ServeHTTP redirects exactly when the direct search fails, the
\* method is not CONNECT, the path is not '/', a transform is enabled and
\* search on the transformed path succeeds; the Location is the transformed
\* path and no handler is invoked; every other unmatched request of a
\* method with a tree goes to the not-found handler.
C11_RedirectExactly ==
  DirectMiss =>
    IF call.method # "CONNECT" /\ call.path # <<"/">> /\ RedirectEnabled
       /\ SearchSucceeds(RedirectPath(opts, call.path))
    THEN /\ call.resp.kind = "redirect"
         /\ call.resp.location = RedirectPath(opts, call.path)
         /\ call.resp.handler = NilHandler
    ELSE call.resp.kind = "notfound"

\* ----------------------------------------------------------------------
\* C12  (as stated) A redirect carries 301 when the method is GET or HEAD
\* and 308 for every other method.
C12_RedirectCodeGetHead ==
  (call.op = "ServeHTTP" /\ call.resp.kind = "redirect") =>
    call.resp.code = (IF call.method \in {"GET", "HEAD"} THEN 301 ELSE 308)

\* C12  (amended) A redirect carries 301 when the method is GET and 308 for
\* every other method, HEAD included.
C12_RedirectCode ==
  (call.op = "ServeHTTP" /\ call.resp.kind = "redirect") =>
    call.resp.code = (IF call.method = "GET" THEN 301 ELSE 308)

\* A HEAD request is redirected with 308.
C12_Witness ==
  /\ call.op = "ServeHTTP"
  /\ call.resp.kind = "redirect"
  /\ call.method = "HEAD"
  /\ call.resp.code = 308

\* ----------------------------------------------------------------------
\* Route i is a static GET route that the requested path equals up to the
\* case of its letters, without being the route as it was registered.
CaseVariantOf(i) ==
  /\ routes[i].method = "GET"
  /\ countParams(routes[i].pattern) = 0
  /\ call.path # routes[i].pattern
  /\ ToLower(call.path) = ToLower(routes[i].pattern)

\* The last call answered 301 with the lower-cased path as Location, and a
\* search of that Location finds the handler of route i.
RedirectedToLower(i) ==
  LET Reaches(s) == ~s.panic /\ s.found /\ s.value.h = routes[i].h
  IN  /\ call.resp.kind = "redirect"
      /\ call.resp.code = 301
      /\ call.resp.location = ToLower(call.path)
      /\ Reaches(search(trees["GET"], call.resp.location, NewRequest))

MatchingMethods ==
  {routes[k].method : k \in {i \in 1..Len(routes) :
                               Instance(routes[i].key, call.path).ok}}

\* C14  With Allow-header support enabled the Allow header of a 405
\* response lists exactly the methods that have a route matching the
\* request path, each once (OPTIONS among them when the options handler's
\* route is registered); with support disabled no Allow header is set.
C14_AllowHeader ==
  (call.op = "ServeHTTP" /\ call.resp.kind = "notallowed") =>
    IF opts.setAllowHeader
    THEN /\ {call.resp.allow[k] : k \in 1..Len(call.resp.allow)} = MatchingMethods
         /\ Len(call.resp.allow) = Cardinality(MatchingMethods)
    ELSE call.resp.allow = <<>>

\* ----------------------------------------------------------------------
\* C15  Panic containment: a panic of the dispatched handler (or of its
\* middleware) propagates out of ServeHTTP exactly when no panic handler is
\* configured; with one configured the panic is recovered in that request
\* and handed to the panic handler, and ServeHTTP returns normally.
C15_PanicContainment ==
  (call.op = "ServeHTTP" /\ call.resp.returned = "panic") =>
    /\ call.resp.panicked
    /\ call.resp.recovered <=> opts.panicHandler
    /\ call.resp.kind = "handler"
    /\ ~call.resp.errHandler

\* A handler panics on a Mux with a panic handler and the panic is recovered.
C15_Witness ==
  /\ call.op = "ServeHTTP"
  /\ call.resp.returned = "panic"
  /\ call.resp.handler # NilHandler
  /\ opts.panicHandler
  /\ call.resp.recovered

\* C16  When the dispatched handler returns an error, ServeHTTP invokes the
\* error handler for that request and returns normally: nothing is raised
\* as a panic, and neither a redirect nor the not-found handler follows.
C16_ErrorHandler ==
  (call.op = "ServeHTTP" /\ call.resp.returned = "error") =>
    /\ call.resp.errHandler
    /\ ~call.resp.panicked
    /\ ~call.resp.recovered
    /\ call.resp.kind = "handler"
    /\ call.resp.code = 0
    /\ call.resp.location = <<>>

\* A registered handler returned an error and the error handler answered.
C16_Witness ==
  /\ call.op = "ServeHTTP"
  /\ call.resp.returned = "error"
  /\ call.resp.handler # NilHandler
  /\ call.resp.errHandler

\* ----------------------------------------------------------------------
\* The calls in flight: between Get and the end of the deferred calls.
InFlight(p) == inflight[p].pc \in {"body", "defer"}

\* C17  Under any interleaving of concurrent ServeHTTP calls, a pooled
\* writerContext is held by at most one call in flight and is not in the
\* pool while held; a call still has its instance while its panic handler
\* is yet to run; and a call that has ended has Put its instance exactly
\* once, whether it returned or left with a panic.
C17_PoolOwnership ==
  \A p \in Procs :
    /\ inflight[p].puts <= 1
    /\ (InFlight(p) /\ inflight[p].puts = 0) =>
         /\ inflight[p].ctx \in Ctxs
         /\ inflight[p].ctx \notin ctxPool
         /\ \A q \in Procs \ {p} :
              (InFlight(q) /\ inflight[q].puts = 0) => inflight[q].ctx # inflight[p].ctx
    /\ (InFlight(p) /\ inflight[p].puts > 0) =>
         \A i \in 1..Len(inflight[p].deferred) : inflight[p].deferred[i] # "recover"
    /\ inflight[p].pc = "body" => inflight[p].puts = 0
    /\ inflight[p].pc = "done" => inflight[p].puts = 1

\* Two calls are in flight: one whose handler panicked and whose panic
\* handler is yet to run, the other in its body.
C17_Witness ==
  \E p, q \in Procs :
    /\ p # q
    /\ inflight[p].pc = "defer" /\ inflight[p].panicking
    /\ Len(inflight[p].deferred) = 2
    /\ inflight[q].pc = "body"

\* ----------------------------------------------------------------------
\* The entries of a middleware list that are functions.
NonNil(mw) == SelectSeq(mw, LAMBDA f : f # 0)

\* The call dispatched the request to the handler of route i.
DispatchedTo(i) ==
  /\ call.op = "ServeHTTP"
  /\ call.resp.kind = "handler"
  /\ call.resp.handler.h = routes[i].h

\* C18  Middleware ordering: a request dispatched to a route registered
\* with its own middleware r1..rn on a Mux whose middleware was g1..gm runs
\* g1, ..., gm, then r1, ..., rn, then the handler; nil entries are skipped.
C18_MiddlewareOrder ==
  \A i \in 1..Len(routes) :
    DispatchedTo(i) =>
      call.resp.ran = NonNil(routes[i].global) \o NonNil(routes[i].mw) \o <<routes[i].h>>

\* A request ran both global and route middleware before its handler.
C18_Witness ==
  \E i \in 1..Len(routes) :
    /\ DispatchedTo(i)
    /\ routes[i].global = GlobalMiddleware
    /\ routes[i].mw = <<21, 0, 22>>
    /\ call.resp.ran = <<11, 12, 21, 22, routes[i].h>>

\* C19  The middleware given to WithMiddleware runs on every dispatched
\* request for every handler of the Mux, the OPTIONS handler registered by
\* WithOptionsHandler included, wherever WithMiddleware stands among the
\* options of New.
C19_GlobalMiddlewareEverywhere ==
  (call.op = "ServeHTTP" /\ call.resp.kind = "handler" /\ ~call.resp.panicked) =>
    /\ Len(call.resp.ran) >= Len(NonNil(opts.mw))
    /\ \A k \in 1..Len(NonNil(opts.mw)) : call.resp.ran[k] = NonNil(opts.mw)[k]

\* ----------------------------------------------------------------------
\* A pattern with a ':' or '*' whose name is missing or empty, or holds a
\* ':' or '*', or with a '*' whose name stops before the end of the pattern.
Malformed(b) ==
  \E i \in 1..Len(b) :
    /\ b[i] \in {":", "*"}
    /\ \/ TokenName(b, i) = <<>>
       \/ \E k \in 1..Len(TokenName(b, i)) : TokenName(b, i)[k] \in {":", "*"}
       \/ b[i] = "*" /\ SegmentEnd(b, i + 1) # Len(b) + 1

\* C20  Pattern validation: insert panics on a pattern exactly when some
\* ':' or '*' has no name or an empty one, or a name that holds ':' or '*'
\* before the next '/', or when a '*' token's name does not run to the end
\* of the pattern; and it panics before it changes the tree.
C20_PatternValidation ==
  /\ [](call.op = "Handle" => (call.panic = "invalid" <=> Malformed(call.path)))
  /\ [][(call'.op = "Handle" /\ call'.panic = "invalid") =>
          trees' = [trees EXCEPT ![call'.method] =
                      IF @ = NilTree THEN <<EmptyNode>> ELSE @]]_vars

\* A pattern with a wildcard before its end was rejected on a tree that
\* holds a route, and a well-formed pattern was registered before it.
C20_Witness ==
  /\ call.op = "Handle"
  /\ call.panic = "invalid"
  /\ call.path = <<"/", "*", "a", "/">>
  /\ Len(routes) = 1

\* ----------------------------------------------------------------------
\* The arguments Handle refuses: an empty or unknown method, an empty path
\* or one that does not begin with '/', a nil handler.
BadArguments(c) ==
  \/ c.method = ""
  \/ c.method \notin httpMethods
  \/ Len(c.path) = 0
  \/ c.path[1] # "/"
  \/ c.isNil

\* C21  Mux.Handle panics, and neither creates a method tree nor changes a
\* tree, when the method is empty or not one of the nine HTTP methods, when
\* the path is empty or does not begin with '/', or when the handler is nil.
C21_HandleArguments ==
  /\ Cardinality(httpMethods) = 9
  /\ []((call.op = "Handle" /\ BadArguments(call)) =>
          call.panic \in {"emptymethod", "badmethod", "emptypath", "noslash",
                          "nilhandler"})
  /\ [][(call'.op = "Handle" /\ BadArguments(call')) =>
          (trees' = trees /\ routes' = routes)]_vars

\* A nil handler was refused for a method that has no tree yet, and the
\* method still has none.
C21_Witness ==
  /\ call.op = "Handle"
  /\ call.isNil
  /\ call.method = "GET"
  /\ call.path = <<"/", "a">>
  /\ call.panic = "nilhandler"
  /\ trees["GET"] = NilTree

\* ----------------------------------------------------------------------
\* The routes collected from the tree of a method, <<>> when it has none.
Collected(method) ==
  IF trees[method] = NilTree THEN <<>> ELSE collectRoutes(trees[method], 1)

\* The keys registered under a method.
KeysOf(method) ==
  {routes[i].key : i \in {k \in 1..Len(routes) : routes[k].method = method}}

\* C22  After any sequence of successful registrations every leaf records
\* the pattern whose registration made it a leaf: the routes collected from
\* a method's tree are the patterns registered under the method, each once,
\* and a successful search sets the request's Pattern to the registered
\* pattern of the route it matched.
C22_LeafRoutes ==
  /\ \A m \in httpMethods :
       /\ {Collected(m)[k] : k \in 1..Len(Collected(m))} = KeysOf(m)
       /\ Len(Collected(m)) = Cardinality(KeysOf(m))
  /\ (Searched /\ ~Direct.panic /\ Direct.found) =>
       \E i \in 1..Len(routes) :
         /\ OnMethod(i)
         /\ routes[i].h = Direct.value.h
         /\ Direct.r.pattern = routes[i].key

\* ----------------------------------------------------------------------
\* C23  Every variable a successful match extracts is stored under the
\* token name written in the pattern given to the registration, and is
\* retrievable by that name, also with case-insensitive routing.
C23_VariableNames ==
  \A i \in 1..Len(routes) :
    (Searched /\ OnMethod(i) /\ ~Direct.panic /\ Direct.found
       /\ Direct.value.h = routes[i].h
       /\ Instance(routes[i].pattern, call.path).ok) =>
      \A b \in Instance(routes[i].pattern, call.path).vars :
        PathValue(Direct.r, b[1]) = b[2]

C26_MethodIsolation ==
  /\ [][call'.op = "Handle" =>
          \A m \in httpMethods \ {call'.method} : trees'[m] = trees[m]]_vars
  /\ []((call.op = "Handle" /\ call.panic \in {"duplicate", "conflict"}) =>
          \E i \in 1..Len(routes) : OnMethod(i))
  /\ []((call.op = "Handle" /\ call.panic = "duplicate") => call.dup)

\* A pattern registered under GET has just been registered under POST.
C26_Witness ==
  /\ call.op = "Handle"
  /\ call.panic = ""
  /\ call.method = "POST"
  /\ Len(routes) = 2
  /\ routes[1].method = "GET"
  /\ routes[1].key = call.path
  /\ routes[2].method = "POST"
  /\ trees["GET"] # NilTree

\* ----------------------------------------------------------------------
\* C27  search never faults: on a tree built by successful insertions it
\* returns a handler and a found flag for every request path, without an
\* index-out-of-range or nil-dereference panic.
C27_SearchNeverFaults ==
  (Searched /\ trees[call.method] # NilTree) => ~Direct.panic

\* ----------------------------------------------------------------------
\* The tree that inserting the routes rs in order builds: [t, panic].
RECURSIVE BuiltFrom(_)
BuiltFrom(rs) ==
  IF rs = <<>> THEN [t |-> <<EmptyNode>>, panic |-> ""]
  ELSE LET Next1(b) ==
             IF b.panic # "" THEN b
             ELSE insert(b.t, rs[Len(rs)].key, [chain |-> <<>>, h |-> rs[Len(rs)].h])
       IN  Next1(BuiltFrom(SubSeq(rs, 1, Len(rs) - 1)))

\* The registered routes in every order.
RouteOrders ==
  {[k \in 1..Len(routes) |-> routes[o[k]]] : o \in Orders(1..Len(routes))}

\* Two trees give the same search result for the path.
SameResult(t1, t2, path) ==
  LET Same(a, b) ==
        /\ a.panic = b.panic
        /\ a.found = b.found
        /\ a.found => (a.value = b.value /\ a.r.vars = b.r.vars)
  IN  Same(search(t1, path, NewRequest), search(t2, path, NewRequest))

\* C28  Order independence: when a set of patterns can be registered on
\* one method in two orders, search gives for every path the same found
\* flag, the same matched route and the same variables on both trees.
C28_OrderIndependence ==
  (call.op = "Handle" /\ call.panic = "" /\ call.method = "GET") =>
    \A rs \in RouteOrders :
      LET Agree(b) ==
            b.panic = "" =>
              \A path \in TreePaths : SameResult(trees["GET"], b.t, path)
      IN  Agree(BuiltFrom(rs))

\* ----------------------------------------------------------------------
\* The nodes of the subtree at n with the concatenation of the key
\* fragments from the root to each: a set of [node, full].
RECURSIVE FullKeys(_, _, _)
FullKeys(t, n, prefix) ==
  {[node |-> n, full |-> prefix \o t[n].key]}
    \cup UNION {FullKeys(t, t[n].edges[k].node, prefix \o t[n].key) :
                  k \in 1..Len(t[n].edges)}

\* C29  Tree shape: after any sequence of successful insertions every
\* registered pattern has exactly one node whose key fragments from the
\* root spell the pattern, that node is a leaf with the pattern's handler,
\* and no other node is a leaf or has a handler; a split leaves the handler
\* and the children of the truncated node on the node that gets its suffix.
C29_TreeShape ==
  trees["GET"] # NilTree =>
    LET Shape(nodes) ==
          /\ \A i \in 1..Len(routes) :
               routes[i].method = "GET" =>
                 /\ Cardinality({x \in nodes : x.full = routes[i].key}) = 1
                 /\ \A x \in nodes :
                      x.full = routes[i].key =>
                        /\ trees["GET"][x.node].leaf
                        /\ trees["GET"][x.node].value.h = routes[i].h
          /\ \A x \in nodes :
               (trees["GET"][x.node].leaf \/ trees["GET"][x.node].value # NilHandler) =>
                 x.full \in KeysOf("GET")
          /\ Cardinality({x.node : x \in nodes}) = Len(trees["GET"])
    IN  Shape(FullKeys(trees["GET"], 1, <<>>))

\* A registration split a leaf that had children, and made the truncated
\* node the leaf of the new pattern.
C29_Witness ==
  /\ call.op = "Handle"
  /\ call.panic = ""
  /\ Len(routes) = 3
  /\ routes[1].key = <<"/", "a", "/", "b">>
  /\ routes[2].key = <<"/", "a", "/", ":", "x">>
  /\ routes[3].key = <<"/", "a">>

\* ----------------------------------------------------------------------
\* C30  An insert that panics, for an invalid pattern, a conflict or a
\* duplicate, leaves the tree it was called on as it was, so that every
\* search gives afterwards what it gave before.
C30_FailedInsertKeepsTree ==
  [][(call'.op = "Handle" /\ call'.panic \in {"invalid", "conflict", "duplicate"}) =>
       /\ trees'[call'.method] = methodRoot(trees, call'.method)
       /\ \A path \in TreePaths :
            search(trees'[call'.method], path, NewRequest)
              = search(methodRoot(trees, call'.method), path, NewRequest)]_vars

\* A registration was refused for a conflict on a tree that holds routes.
C30_Witness ==
  /\ call.op = "Handle"
  /\ call.panic = "conflict"
  /\ Len(routes) >= 2

\* ----------------------------------------------------------------------
\* The walk of the direct search of the last call.
DirectWalk == searchLoop(trees[call.method], 1, call.path, NewRequest).walk

\* A walk on tree t goes down from the root, one edge at a time, each time
\* by the edge search prefers for the first byte of the key left.
Descends(t, walk) ==
  /\ walk[1].node = 1
  /\ \A k \in 1..(Len(walk) - 1) :
       /\ walk[k].key # <<>>
       /\ edgeFor(t[walk[k].node].edges, walk[k].key[1]).ok
       /\ walk[k + 1].node = edgeFor(t[walk[k].node].edges, walk[k].key[1]).node
  /\ \A k, l \in 1..Len(walk) : k # l => walk[k].node # walk[l].node

VariableNames(p) == {TokenName(p, k) : k \in {j \in 1..Len(p) : p[j] = ":"}}

\* The segments of a path: the strings between its '/' bytes.
Segments(path) ==
  {SubSeq(path, k + 1, SegmentEnd(path, k + 1) - 1) :
     k \in {j \in 1..Len(path) : path[j] = "/"}}

\* C32  On every successful match the value bound to each :variable token
\* is one whole segment of the path: a non-empty string without '/'.
C32_VariableIsSegment ==
  \A i \in 1..Len(routes) :
    (Searched /\ OnMethod(i) /\ ~Direct.panic /\ Direct.found
       /\ Direct.value.h = routes[i].h) =>
      \A name \in VariableNames(routes[i].key) :
        /\ PathValue(Direct.r, name) # <<>>
        /\ \A k \in 1..Len(PathValue(Direct.r, name)) :
             PathValue(Direct.r, name)[k] # "/"
        /\ PathValue(Direct.r, name) \in Segments(call.path)

\* ----------------------------------------------------------------------
\* C33  A request that does not panic ends in exactly one outcome: the
\* matched handler is called (and the error handler after it when it
\* fails), or a redirect is issued, or the method-not-allowed handler is
\* called, or the not-found handler is called; never two, never none.
C33_OneOutcome ==
  (call.op = "ServeHTTP" /\ ~call.resp.panicked) =>
    /\ call.resp.kind \in {"handler", "redirect", "notallowed", "notfound"}
    /\ call.resp.returned # "" <=> call.resp.kind = "handler"
    /\ call.resp.ran # <<>> <=> call.resp.kind = "handler"
    /\ call.resp.errHandler => (call.resp.kind = "handler" /\ call.resp.returned = "error")
    /\ call.resp.code # 0 <=> call.resp.kind = "redirect"
    /\ call.resp.location # <<>> <=> call.resp.kind = "redirect"
    /\ call.resp.allow # <<>> => call.resp.kind = "notallowed"
    /\ ~call.resp.recovered

\* A request was answered by a redirect, and by nothing else.
C33_Witness ==
  /\ call.op = "ServeHTTP"
  /\ ~call.resp.panicked
  /\ call.resp.kind = "redirect"
  /\ call.resp.code = 301

\* ----------------------------------------------------------------------
\* C34  No redirect chains: a redirect goes to a path that differs from the
\* request path and that a direct search on the tree of the same method
\* finds, so the same method on the new path is dispatched to a handler
\* and is not redirected again.
C34_NoRedirectChain ==
  (call.op = "ServeHTTP" /\ call.resp.kind = "redirect") =>
    /\ call.resp.location # call.path
    /\ trees[call.method] # NilTree
    /\ LET s == search(trees[call.method], call.resp.location, NewRequest)
       IN  ~s.panic /\ s.found
    /\ ServeHTTPResult(trees, opts, call.method, call.resp.location, <<>>,
                       "ok").kind = "handler"

\* A HEAD request for "/A/" was redirected to "/a".
C34_Witness ==
  /\ call.op = "ServeHTTP"
  /\ call.method = "HEAD"
  /\ call.path = <<"/", "A", "/">>
  /\ call.resp.kind = "redirect"
  /\ call.resp.location = <<"/", "a">>
  /\ call.resp.code = 308

\* ----------------------------------------------------------------------
\* The trees the registrations made, before any request was served.
RegisteredTrees ==
  [m \in httpMethods |->
     LET rs == SelectSeq(routes, LAMBDA q : q.method = m)
     IN  IF rs = <<>> THEN NilTree ELSE BuiltFrom(rs).t]

\* What the request of goroutine p comes to when it is the only request.
Alone(p) ==
  { ServeBody(RegisteredTrees, opts, inflight[p].method, inflight[p].path, order,
              inflight[p].behaviour) :
      order \in Orders({m \in httpMethods : RegisteredTrees[m] # NilTree}) }

EdgeLabels == {"/", ":", "*", "a", "b", "x", "y", "v", "w", "A", "B"}

\* C36  Edge-set invariant: after any sequence of insertions the edges of
\* every node are strictly increasing by label, the label of an edge is
\* the first byte of the key fragment of its child, every node but the
\* root has a non-empty key fragment, and get(label) gives the child under
\* that label exactly when there is one.
C36_EdgeSet ==
  \A m \in httpMethods :
    \A n \in 1..Len(trees[m]) :
      LET e == trees[m][n].edges
      IN  /\ \A k \in 1..(Len(e) - 1) : Ord(e[k].label) < Ord(e[k + 1].label)
          /\ \A k \in 1..Len(e) :
               /\ e[k].node \in 2..Len(trees[m])
               /\ trees[m][e[k].node].key # <<>>
               /\ trees[m][e[k].node].key[1] = e[k].label
               /\ get(e, e[k].label) = [node |-> e[k].node, ok |-> TRUE]
          /\ n > 1 => trees[m][n].key # <<>>
          /\ \A c \in EdgeLabels :
               (\A k \in 1..Len(e) : e[k].label # c) =>
                 get(e, c) = [node |-> 0, ok |-> FALSE]

\* A node has three edges: "/" was split twice, below it are the children
\* for '*', ':' and 'a'.
C36_Witness ==
  /\ call.op = "Handle"
  /\ call.panic = ""
  /\ \E n \in 1..Len(trees["GET"]) :
       /\ Len(trees["GET"][n].edges) = 3
       /\ trees["GET"][n].edges[1].label = "*"
       /\ trees["GET"][n].edges[2].label = ":"
       /\ trees["GET"][n].edges[3].label = "a"

\* ----------------------------------------------------------------------
\* The depth of the subtree at node n: the edges of its longest branch.
RECURSIVE Depth(_, _)
Depth(t, n) ==
  IF t[n].edges = <<>> THEN 0
  ELSE 1 + CHOOSE d \in {Depth(t, t[n].edges[k].node) : k \in 1..Len(t[n].edges)} :
             \A k \in 1..Len(t[n].edges) : Depth(t, t[n].edges[k].node) <= d

\* Every turn of the loop of search, as the walk records them, leaves a
\* shorter key or goes to a child of the node it was on, and the turns are
\* no more than the bytes of the key plus the depth of the tree.
Progresses(t, key, walk) ==
  /\ \A k \in 1..(Len(walk) - 1) :
       \/ Len(walk[k + 1].key) < Len(walk[k].key)
       \/ \E j \in 1..Len(t[walk[k].node].edges) :
            t[walk[k].node].edges[j].node = walk[k + 1].node
  /\ Len(walk) - 1 <= Len(key) + Depth(t, 1)

\* C37  search and insert terminate: on every tree the registrations build
\* and for every key, each iteration of search uses up a byte of the key
\* or goes down one level, and the iterations of either loop are no more
\* than the length of the key plus the depth of the tree.
C37_BoundedLoops ==
  trees["GET"] # NilTree =>
    /\ \A path \in TreePaths :
         Progresses(trees["GET"], path,
                    searchLoop(trees["GET"], 1, path, NewRequest).walk)
    /\ \A p \in TreePatterns :
         insert(trees["GET"], p, [chain |-> <<>>, h |-> 1]).iterations
           <= Len(p) + Depth(trees["GET"], 1)

\* A search went down two levels of a tree that has them, and an insert
\* would go round its loop three times.
C37_Witness ==
  /\ call.op = "ServeHTTP"
  /\ trees["GET"] # NilTree
  /\ Depth(trees["GET"], 1) >= 3
  /\ Len(DirectWalk) >= 4
  /\ \E p \in TreePatterns :
       insert(trees["GET"], p, [chain |-> <<>>, h |-> 1]).iterations >= 3

\* ----------------------------------------------------------------------
\* C38  After any sequence of successful insertions the param flag of a
\* node is true exactly when its key fragment holds a ':' or a '*'; a split
\* keeps the flag right on the node it truncates and on the node that gets
\* the suffix.
C38_ParamFlag ==
  \A m \in httpMethods :
    \A n \in 1..Len(trees[m]) :
      trees[m][n].param <=> (countParams(trees[m][n].key) # 0)

====
